---- MODULE Spec2Model ----
(***************************************************************************)
(* Well-plan construction engine: PlanBuilder.compile, the TeamManager it  *)
(* drives, the constraint manager, the production profile, the NPV cost    *)
(* function and the cluster risk strategy.                                 *)
(*                                                                         *)
(* Time is counted in whole days since datetime.min (0001-01-01), on a     *)
(* calendar of MonthsPerYear months of DaysPerMonth days each.  Every date *)
(* the builder handles is a midnight: the plan start, the first of January *)
(* of a year, and sums of these with task durations and travel times, all  *)
(* of them whole days.                                                     *)
(*                                                                         *)
(* An Optional value is the empty sequence (None) or a one-element         *)
(* sequence.  Percentages stand for the risk strategy's fractions.         *)
(***************************************************************************)
EXTENDS Integers, Sequences, FiniteSets, TLC

VARIABLES
    wells,              \* compile(wells=...): the input list of Well records
    team_pool,          \* TeamPool: the teams in add_team order, each its supported tasks
    limits,             \* BaseTeamManager.limits: year -> task -> max distinct teams
    constraints,        \* ConstraintManager.constraints
    start,              \* PlanBuilder.start
    end,                \* PlanBuilder.end
    keep_order,         \* compile(keep_order=...)
    cluster_ordered,    \* compile(cluster_ordered=...)
    risk_strategy,      \* compile(risk_strategy=...): FALSE for None
    cost_function,      \* PlanBuilder.cost_function: "npv" or "table"
    cost_table,         \* the costs a table cost function hands out, by well name
    selection,          \* the builder.py that runs: "annealing" or "greedy"
    use_drill_team_penalty, \* PlanBuilder.use_drill_team_penalty
    remaining_wells,    \* PlanBuilder.remaining_wells
    current_start,      \* compile: current_start
    plan,               \* compile: plan.well_plans
    states,             \* BaseTeamManager._states
    usage_counts,       \* BaseTeamManager._usage_counts
    affected_clusters,  \* ClusterRandomRiskStrategy._affected_clusters
    pc,                 \* compile: "loop", "done" (returned), "error" (raised); "reported"
    last,               \* the way the last loop iteration took
    profit,             \* the value of plan.total_profit() once it is asked for
    twin,               \* a second, independent run of compile on the same inputs
    sa                  \* a run of a simulated-annealing loop: the builder's selection
                        \* among candidates or the planner's optimize of a plan; or
                        \* one call of the planner's _get_neighbor on compile's plan;
                        \* or one call of LinearProductionProfile.compute; or
                        \* one read of Well.tasks

inputs == <<wells, team_pool, limits, constraints, start, end, keep_order,
            cluster_ordered, risk_strategy, cost_function, cost_table, selection,
            use_drill_team_penalty>>
run_vars == <<remaining_wells, current_start, plan, states, usage_counts,
              affected_clusters, pc, last>>
vars == <<inputs, run_vars, profit, twin, sa>>

----------------------------------------------------------------------------
(* Optional values and small helpers                                       *)

None == <<>>
Some(v) == <<v>>
IsNone(o) == o = <<>>
Get(o) == o[1]

Max2(a, b) == IF a >= b THEN a ELSE b
Min2(a, b) == IF a <= b THEN a ELSE b
MinOf(S) == CHOOSE x \in S : \A y \in S : x <= y
MaxOf(S) == CHOOSE x \in S : \A y \in S : x >= y
Range(s) == {s[i] : i \in DOMAIN s}

\* dict.get(key, default)
DictGet(d, k, default) == IF k \in DOMAIN d THEN d[k] ELSE default
\* d[key] = value
DictSet(d, k, v) == (k :> v) @@ d

RECURSIVE SumSeq(_)
SumSeq(s) == IF s = <<>> THEN 0 ELSE s[1] + SumSeq(Tail(s))

\* list.remove(x): drops the first element equal to x
RECURSIVE ListRemove(_, _)
ListRemove(s, x) ==
    IF s = <<>> THEN <<>>
    ELSE IF s[1] = x THEN Tail(s)
    ELSE <<s[1]>> \o ListRemove(Tail(s), x)

----------------------------------------------------------------------------
(* Bounds of the model                                                     *)

MaxWells == 3
HorizonYears == 2

----------------------------------------------------------------------------
(* Calendar                                                                *)

DaysPerMonth == 30
MonthsPerYear == 12
DaysPerYear == DaysPerMonth * MonthsPerYear

\* datetime(year, month, day)
datetime(y, m, d) == ((y - 1) * MonthsPerYear + (m - 1)) * DaysPerMonth + (d - 1)
\* datetime.min
datetime_min == datetime(1, 1, 1)
\* datetime.year, datetime.month
year(t) == (t \div DaysPerYear) + 1
month(t) == ((t % DaysPerYear) \div DaysPerMonth) + 1

----------------------------------------------------------------------------
(* core/task.py: Task                                                      *)

DRILLING_days == 30
GTM_days == 20

Tasks == {"DRILLING", "GTM"}
duration(task) == IF task = "DRILLING" THEN DRILLING_days ELSE GTM_days

\* Codes are sequences of letters; the Cyrillic aliases are transliterated.
name_DRILLING == <<"D", "R", "I", "L", "L", "I", "N", "G">>
name_GTM == <<"G", "T", "M">>
GS == <<"G", "S">>
NNS == <<"N", "N", "S">>
MZS == <<"M", "Z", "S">>
GRP == <<"G", "R", "P">>

\* x in s for two str values: x is a contiguous part of s
IsSubstring(x, s) ==
    \E i \in 0..Len(s) :
        /\ i + Len(x) <= Len(s)
        /\ \A j \in 1..Len(x) : s[i + j] = x[j]

\* str.upper on the letters codes are written with
upper_letter(c) ==
    IF c = "g" THEN "G" ELSE IF c = "r" THEN "R" ELSE IF c = "p" THEN "P"
    ELSE IF c = "s" THEN "S" ELSE c
upper(code) == [i \in DOMAIN code |-> upper_letter(code[i])]

\* Task.from_code.  DRILLING's aliases are a tuple of three strings; GTM's
\* "aliases" is written ("GRP"), one string, so that `code in task.aliases`
\* there is a substring test.
from_code(code) ==
    IF upper(code) = name_DRILLING \/ upper(code) \in {GS, NNS, MZS} THEN "DRILLING"
    ELSE IF upper(code) = name_GTM \/ IsSubstring(upper(code), GRP) THEN "GTM"
    ELSE "ValueError"

\* Well.tasks: well_type is kept as its "+"-separated, stripped segments
well_tasks(well) == [i \in DOMAIN well.well_type |-> from_code(well.well_type[i])]
well_tasks_raises(well) == \E i \in DOMAIN well.well_type : from_code(well.well_type[i]) = "ValueError"

----------------------------------------------------------------------------
(* core/team.py: TeamPool.  A team is its index in team_pool.               *)

Teams == DOMAIN team_pool
RECURSIVE _teams_for_task_from(_, _)
\* TeamPool._task_teams_map[task], built by add_team
_teams_for_task_from(task, i) ==
    IF i > Len(team_pool) THEN <<>>
    ELSE (IF task \in team_pool[i] THEN <<i>> ELSE <<>>) \o _teams_for_task_from(task, i + 1)

\* TeamPool.get_teams_for_task: the teams able to do the task, in add order
get_teams_for_task(task) == _teams_for_task_from(task, 1)
\* TeamPool.supported_tasks
supported_tasks == UNION Range(team_pool)

----------------------------------------------------------------------------
(* services/team_manager.py                                                *)

same_cluster_move_days == 1
other_cluster_move_days == 14
NoCluster == "<none>"

\* SimpleTeamMovement.get_move_days
get_move_days(from_cluster, to_cluster) ==
    IF from_cluster = to_cluster THEN same_cluster_move_days ELSE other_cluster_move_days

\* TeamState()
TeamState0 == [available_from |-> datetime_min, current_cluster |-> NoCluster]

\* The (year, task) pairs that carry a limit
LimitPairs == {<<y, t>> \in (DOMAIN limits) \X Tasks : t \in DOMAIN limits[y]}

\* a team already counted is admitted only while the year is not full
_check_limit_counting(usage, task, yr, team) ==
    IF DOMAIN limits = {} THEN TRUE
    ELSE IF yr \notin DOMAIN limits \/ DOMAIN limits[yr] = {} THEN TRUE
    ELSE IF task \notin DOMAIN limits[yr] THEN TRUE
    ELSE Cardinality(usage[<<yr, task>>]) < limits[yr][task]

\* BaseTeamManager._check_limit
_check_limit(usage, task, yr, team) ==
    IF DOMAIN limits = {} THEN TRUE
    ELSE IF yr \notin DOMAIN limits \/ DOMAIN limits[yr] = {} THEN TRUE
    ELSE IF task \notin DOMAIN limits[yr] THEN TRUE
    ELSE IF team \in usage[<<yr, task>>] THEN TRUE
    ELSE Cardinality(usage[<<yr, task>>]) < limits[yr][task]

\* the team is added to every later limited year without asking _check_limit
_record_usage_unchecked(usage, task, assignment_year, team) ==
    [p \in DOMAIN usage |->
        IF p[2] = task /\ p[1] >= assignment_year
        THEN usage[p] \cup {team}
        ELSE usage[p]]

\* the usage is recorded in the year of the assignment only
_record_usage_this_year(usage, task, assignment_year, team) ==
    [p \in DOMAIN usage |->
        IF /\ p[2] = task
           /\ p[1] = assignment_year
           /\ _check_limit(usage, task, p[1], team)
        THEN usage[p] \cup {team}
        ELSE usage[p]]

\* BaseTeamManager._record_usage
_record_usage(usage, task, assignment_year, team) ==
    [p \in DOMAIN usage |->
        IF /\ p[2] = task
           /\ p[1] >= assignment_year
           /\ _check_limit(usage, task, p[1], team)
        THEN usage[p] \cup {team}
        ELSE usage[p]]

\* TeamManager._get_travel_time
_get_travel_time(state, well) == get_move_days(state.current_cluster, well.cluster)

\* WellPlanContext.get_next_available_date
get_next_available_date(context) ==
    IF context.entries # <<>>
    THEN MaxOf({context.entries[i].end : i \in DOMAIN context.entries})
    ELSE context.start

\* WellPlanContext.launch_date (raises on a context without entries)
launch_date(context) == MaxOf({context.entries[i].end : i \in DOMAIN context.entries})

\* one move to the next year, which is not checked again
_advance_to_allowed_year_once(usage, task, team, t) ==
    IF _check_limit(usage, task, year(t), team) THEN t
    ELSE datetime(year(t) + 1, 1, 1)

RECURSIVE _advance_to_allowed_year(_, _, _, _)
\* TeamManager._find_available_start_time: the while True loop
_advance_to_allowed_year(usage, task, team, t) ==
    IF _check_limit(usage, task, year(t), team) THEN t
    ELSE _advance_to_allowed_year(usage, task, team, datetime(year(t) + 1, 1, 1))

\* TeamManager._find_available_start_time
_find_available_start_time(st, usage, task, team, travel_time, context) ==
    _advance_to_allowed_year(usage, task, team,
        Max2(st[team].available_from + travel_time, get_next_available_date(context)))

\* BaseTeamManager._count_teams_on_cluster_by_task
_count_teams_on_cluster_by_task(st, cluster, task, team) ==
    Cardinality({t \in Teams : /\ st[t].current_cluster = cluster
                               /\ task \in team_pool[t]
                               /\ t # team})

team_count_key(task) == IF task = "DRILLING" THEN "team_count_drilling" ELSE "team_count_gtm"

\* every entry ends a drilling's duration after its start, whatever its task
ScheduleEntry_of_drilling(task, team, start_time, travel_time) ==
    [task |-> task, team |-> team, start |-> start_time,
     end |-> start_time + DRILLING_days, travel_time |-> travel_time]

\* ScheduleEntry(team, task, start, end = start + task.duration, travel_time)
ScheduleEntry(task, team, start_time, travel_time) ==
    [task |-> task, team |-> team, start |-> start_time,
     end |-> start_time + duration(task), travel_time |-> travel_time]

\* TeamManager.get_assignments: the tuple appended to `candidates` for one team
_team_window(st, usage, context, task, team, travel_time) ==
    ScheduleEntry(task, team,
        _find_available_start_time(st, usage, task, team, travel_time, context),
        travel_time)

\* TeamManager.get_assignments: `candidates`, one window per capable team
_team_windows(st, usage, context, task, teams) ==
    [i \in DOMAIN teams |->
        _team_window(st, usage, context, task, teams[i],
                     _get_travel_time(st[teams[i]], context.well))]

\* the last of the windows with the least end is taken
_min_by_end_last(candidates) ==
    candidates[MaxOf({i \in DOMAIN candidates :
                        \A j \in DOMAIN candidates : candidates[i].end <= candidates[j].end})]

\* min(candidates, key=lambda x: x[1]): the first window with the least end
_min_by_end(candidates) ==
    candidates[MinOf({i \in DOMAIN candidates :
                        \A j \in DOMAIN candidates : candidates[i].end <= candidates[j].end})]

\* context.entries.append(...) and _count_teams_on_cluster
_append_entry(st, context, task, best) ==
    [context EXCEPT
        !.entries = Append(@, best),
        !.metadata = DictSet(@, team_count_key(task),
            _count_teams_on_cluster_by_task(st, context.well.cluster, task, best.team))]

\* TeamManager.get_assignments, one pass of `for task in tasks` for a task some
\* team supports
_assign_task(st, usage, context, task) ==
    _append_entry(st, context, task,
        _min_by_end(_team_windows(st, usage, context, task, get_teams_for_task(task))))

RECURSIVE _get_assignments_from(_, _, _, _, _)
_get_assignments_from(st, usage, context, tasks, i) ==
    IF i > Len(tasks) THEN [raised |-> FALSE, context |-> context]
    ELSE IF tasks[i] \notin supported_tasks THEN [raised |-> TRUE, context |-> context]
    ELSE _get_assignments_from(st, usage, _assign_task(st, usage, context, tasks[i]),
                               tasks, i + 1)

\* TeamManager.get_assignments: the context with its entries, or raised
get_assignments(st, usage, context) ==
    IF well_tasks_raises(context.well) THEN [raised |-> TRUE, context |-> context]
    ELSE _get_assignments_from(st, usage, context, well_tasks(context.well), 1)

\* the team is taken to be free again from the start of its task, not its end
_assign_entry_from_start(m, context, entry) ==
    [states |-> [m.states EXCEPT ![entry.team] =
                    [available_from |-> entry.start,
                     current_cluster |-> context.well.cluster]],
     usage_counts |-> _record_usage(m.usage_counts, entry.task, year(entry.start), entry.team)]

\* every team is moved to the cluster of the well
_assign_entry_moving_all(m, context, entry) ==
    [states |-> [t \in DOMAIN m.states |->
                    IF t = entry.team
                    THEN [available_from |-> entry.end,
                          current_cluster |-> context.well.cluster]
                    ELSE [m.states[t] EXCEPT !.current_cluster = context.well.cluster]],
     usage_counts |-> _record_usage(m.usage_counts, entry.task, year(entry.start), entry.team)]

\* TeamManager.assign: one pass of `for entry in context.entries`
_assign_entry(m, context, entry) ==
    [states |-> [m.states EXCEPT ![entry.team] =
                    [available_from |-> entry.end,
                     current_cluster |-> context.well.cluster]],
     usage_counts |-> _record_usage(m.usage_counts, entry.task, year(entry.start), entry.team)]

RECURSIVE _assign_from_backwards(_, _, _)
\* the entries are committed from the last to the first
_assign_from_backwards(m, context, i) ==
    IF i > Len(context.entries) THEN m
    ELSE _assign_entry(_assign_from_backwards(m, context, i + 1), context,
                       context.entries[i])

RECURSIVE _assign_from(_, _, _)
_assign_from(m, context, i) ==
    IF i > Len(context.entries) THEN m
    ELSE _assign_from(_assign_entry(m, context, context.entries[i]), context, i + 1)

\* TeamManager.assign: the manager's states and usage after committing the context
assign(st, usage, context) ==
    _assign_from([states |-> st, usage_counts |-> usage], context, 1)

----------------------------------------------------------------------------
(* services/infrastructure.py                                              *)

\* SimpleInfrastructure.get_ready_date
get_ready_date(well) ==
    IF ~IsNone(well.readiness_date) THEN Get(well.readiness_date) ELSE datetime_min

----------------------------------------------------------------------------
(* services/production.py                                                  *)

\* LinearProductionProfile.compute: the value appended for one month, if any
_month_value(rate, days) == IF days > 0 THEN <<rate * days>> ELSE <<>>

RECURSIVE _monthly_rates(_, _, _, _)
\* LinearProductionProfile.compute: the loop `while current_month <= context.end`,
\* with next_month = current_month + DaysPerMonth and month_end = next_month - 1
_monthly_rates(rate, first, last_day, current_month) ==
    IF ~(current_month <= last_day) THEN <<>>
    ELSE _month_value(rate,
            (Min2(last_day, current_month + DaysPerMonth - 1)
                - Max2(first, current_month)) + 1)
         \o _monthly_rates(rate, first, last_day, current_month + DaysPerMonth)

\* datetime.replace(day=1)
replace_day_1(t) == t - (t % DaysPerMonth)

_profiles_from(context, first) ==
    [context EXCEPT
        !.oil_prod_profile =
            _monthly_rates(context.well.oil_rate, first, context.end, replace_day_1(first)),
        !.liq_prod_profile =
            _monthly_rates(context.well.liq_rate, first, context.end, replace_day_1(first))]

\* LinearProductionProfile.compute
profiler_compute(context) == _profiles_from(context, get_next_available_date(context))

----------------------------------------------------------------------------
(* services/cost.py.  NPV is taken at discount_rate = 0, where _discount    *)
(* returns the cash flow itself; its other parameters are fixed below.      *)

oil_price_per_tone == 3
oil_cost_per_tone == 1
water_cost_per_tone == 1
repair_monthly == 1
maintain_monthly == 1
build_cost_per_metr == 1
equipment_cost == 0
travel_cost_per_day == 5

\* BaseCapex.compute
capex_cost_compute(well) == build_cost_per_metr * well.length + equipment_cost

\* BaseOpex.compute
opex_cost_compute(monthly_oil_prod, monthly_water_prod) ==
    [i \in 1..Min2(Len(monthly_oil_prod), Len(monthly_water_prod)) |->
        IF monthly_oil_prod[i] = 0 /\ monthly_water_prod[i] = 0 THEN 0
        ELSE monthly_oil_prod[i] * oil_cost_per_tone
             + monthly_water_prod[i] * water_cost_per_tone
             + repair_monthly
             + maintain_monthly]

\* WellPlanContext.get_entry_by_task
get_entry_by_task(context, task) ==
    LET hits == {i \in DOMAIN context.entries : context.entries[i].task = task}
    IN  IF hits = {} THEN None ELSE Some(context.entries[MinOf(hits)])

\* NPV.compute: monthly_cash_flows
_monthly_cash_flows(oil, monthly_opex) ==
    [i \in 1..Min2(Len(oil), Len(monthly_opex)) |->
        oil[i] * oil_price_per_tone - monthly_opex[i]]

\* NPV.compute: the water production handed to the opex cost
_water(liq, oil) == [i \in 1..Min2(Len(liq), Len(oil)) |-> liq[i] - oil[i]]

\* NPV.compute: travel_cost
_travel_cost(entry) ==
    IF ~IsNone(entry) THEN Get(entry).travel_time * travel_cost_per_day ELSE 0

\* NPV.compute: context.cost and the four metadata entries
_npv_result(context, capex, discounted_cash_flows, travel_cost) ==
    [context EXCEPT
        !.cost = Some(discounted_cash_flows - capex - travel_cost),
        !.metadata =
            DictSet(DictSet(DictSet(DictSet(@,
                "travel_cost", travel_cost),
                "cash_flow", discounted_cash_flows),
                "capex", capex),
                "drill_team_penalty",
                    DictGet(context.metadata, "team_count_drilling", 0) * travel_cost)]

\* NPV.compute
npv_compute(context) ==
    _npv_result(context,
        capex_cost_compute(context.well),
        SumSeq(_monthly_cash_flows(context.oil_prod_profile,
                    opex_cost_compute(context.oil_prod_profile,
                        _water(context.liq_prod_profile, context.oil_prod_profile)))),
        _travel_cost(get_entry_by_task(context, "DRILLING")))

\* A CostFunction that only sets context.cost, from a table by well name; the
\* value may be None (the test and example cost functions set nothing else)
table_compute(context) == [context EXCEPT !.cost = cost_table[context.well.name]]

\* CostFunction.compute
cost_function_compute(context) ==
    IF cost_function = "npv" THEN npv_compute(context) ELSE table_compute(context)

----------------------------------------------------------------------------
(* services/risk_strategy.py: ClusterRandomRiskStrategy, in percent         *)

impact == 20

\* ClusterRandomRiskStrategy.apply_risk
apply_risk(affected, context) ==
    IF context.well.cluster \in DOMAIN affected
    THEN [context EXCEPT
            !.oil_prod_profile =
                [i \in DOMAIN @ |-> (@[i] * (100 - affected[context.well.cluster])) \div 100],
            !.metadata = DictSet(@, "applied_risk", affected[context.well.cluster])]
    ELSE context

\* ClusterRandomRiskStrategy.define_risk: the update of _affected_clusters
_raise_reduction(affected, cluster) ==
    IF 100 - DictGet(affected, cluster, 0) > 0
    THEN DictSet(affected, cluster,
            Min2(DictGet(affected, cluster, 0)
                    + Min2(impact, 100 - DictGet(affected, cluster, 0)), 100))
    ELSE affected

_risk_applied(affected, context) ==
    [affected |-> affected, context |-> apply_risk(affected, context)]

\* ClusterRandomRiskStrategy.define_risk; triggered stands for
\* random.random() < self.trigger
define_risk(affected, context, triggered) ==
    IF triggered
    THEN _risk_applied(_raise_reduction(affected, context.well.cluster), context)
    ELSE [affected |-> affected, context |-> context]

----------------------------------------------------------------------------
(* core/plan.py: Plan aggregates and Constraint                            *)

RECURSIVE total_profit_of_gains(_)
\* only the positive costs are summed
total_profit_of_gains(well_plans) ==
    IF well_plans = <<>> THEN 0
    ELSE (IF ~IsNone(well_plans[1].cost) /\ Get(well_plans[1].cost) > 0
          THEN Get(well_plans[1].cost) ELSE 0)
            + total_profit_of_gains(Tail(well_plans))

\* Plan.total_profit
RECURSIVE total_profit(_)
total_profit(well_plans) ==
    IF well_plans = <<>> THEN 0
    ELSE (IF ~IsNone(well_plans[1].cost) THEN Get(well_plans[1].cost) ELSE 0)
            + total_profit(Tail(well_plans))

\* Plan._monthly_to_yearly: the year of each monthly value
_monthly_to_yearly(launch, production) ==
    [idx \in DOMAIN production |->
        [year |-> year(launch) + ((month(launch) + (idx - 1) - 1) \div MonthsPerYear),
         prod |-> production[idx]]]

\* Plan._aggregate_production skips the well plans without entries
_launched(well_plans) == {i \in DOMAIN well_plans : well_plans[i].entries # <<>>}

\* Plan.get_capex_per_year: the total of one year
_capex_in_year(well_plans, y) ==
    SumSeq([i \in DOMAIN well_plans |->
        IF well_plans[i].entries # <<>> /\ year(launch_date(well_plans[i])) = y
        THEN DictGet(well_plans[i].metadata, "capex", 0) ELSE 0])

\* Plan.get_capex_per_year
get_capex_per_year(well_plans) ==
    [y \in {year(launch_date(well_plans[i])) : i \in _launched(well_plans)} |->
        _capex_in_year(well_plans, y)]

\* the part of a list of (year, value) tuples that falls in year y
_year_sum(tuples, y) ==
    SumSeq([idx \in DOMAIN tuples |-> IF tuples[idx].year = y THEN tuples[idx].prod ELSE 0])

_years(tuples) == {tuples[idx].year : idx \in DOMAIN tuples}

\* the oil one context attributes to year y
_context_oil_in_year(context, y) ==
    _year_sum(_monthly_to_yearly(launch_date(context), context.oil_prod_profile), y)

_context_oil_years(context) ==
    _years(_monthly_to_yearly(launch_date(context), context.oil_prod_profile))

\* Plan.get_oil_production_per_year
get_oil_production_per_year(well_plans) ==
    [y \in UNION {_context_oil_years(well_plans[i]) : i \in _launched(well_plans)} |->
        SumSeq([i \in DOMAIN well_plans |->
            IF well_plans[i].entries # <<>>
            THEN _context_oil_in_year(well_plans[i], y) ELSE 0])]

\* Constraint.get_applicable_bound: specific_bounds, as indices
_specific_bounds(bounds, yr) ==
    {i \in DOMAIN bounds : /\ ~IsNone(bounds[i].year)
                           /\ Get(bounds[i].year) # 0
                           /\ Get(bounds[i].year) = yr}

\* Constraint.get_applicable_bound: general_bounds, as indices
_general_bounds(bounds) == {i \in DOMAIN bounds : IsNone(bounds[i].year)}

\* min(bounds, key=lambda b: b.value) if bounds else None
_min_value(bounds, among) ==
    IF among = {} THEN None ELSE Some(MinOf({bounds[i].value : i \in among}))

\* the bound of the year is returned whenever there is one
_applicable_specific_first(min_specific, min_general) ==
    IF ~IsNone(min_specific) THEN min_specific ELSE min_general

\* Constraint.get_applicable_bound: the choice between min_specific and min_general
_applicable(min_specific, min_general) ==
    IF ~IsNone(min_specific) /\ ~IsNone(min_general)
    THEN (IF Get(min_specific) <= Get(min_general) THEN min_specific ELSE min_general)
    ELSE IF ~IsNone(min_specific) THEN min_specific ELSE min_general

\* Constraint.get_applicable_bound: the value of the bound, or None
get_applicable_bound(constraint, yr) ==
    _applicable(_min_value(constraint.bounds, _specific_bounds(constraint.bounds, yr)),
                _min_value(constraint.bounds, _general_bounds(constraint.bounds)))

----------------------------------------------------------------------------
(* services/constraint.py                                                  *)

\* >= written for >: a candidate that reaches the bound exactly is rejected
_capex_over_at_bound(context_capex, bound, planned_capex_this_year) ==
    IF context_capex = 0 THEN FALSE
    ELSE IF IsNone(bound) THEN FALSE
    ELSE planned_capex_this_year + context_capex >= Get(bound)

\* CapexConstraint.is_violated: the three returns
_capex_over(context_capex, bound, planned_capex_this_year) ==
    IF context_capex = 0 THEN FALSE
    ELSE IF IsNone(bound) THEN FALSE
    ELSE planned_capex_this_year + context_capex > Get(bound)

\* CapexConstraint.is_violated
capex_is_violated(constraint, well_plans, context) ==
    _capex_over(DictGet(context.metadata, "capex", 0),
                get_applicable_bound(constraint, year(launch_date(context))),
                DictGet(get_capex_per_year(well_plans), year(launch_date(context)), 0))

\* the oil already planned for the year is left out of the total
_oil_over_alone(bound, plan_oil, context_oil) ==
    ~IsNone(bound) /\ context_oil > Get(bound)

\* OilConstraint.is_violated: the test of one target year
_oil_over(bound, plan_oil, context_oil) ==
    ~IsNone(bound) /\ plan_oil + context_oil > Get(bound)

\* OilConstraint.is_violated: the loop over context_oil_per_year
_oil_over_some_year(constraint, plan_oil_per_year, context) ==
    \E target_year \in _context_oil_years(context) :
        _oil_over(get_applicable_bound(constraint, target_year),
                  DictGet(plan_oil_per_year, target_year, 0),
                  _context_oil_in_year(context, target_year))

\* OilConstraint.is_violated
oil_is_violated(constraint, well_plans, context) ==
    _oil_over_some_year(constraint, get_oil_production_per_year(well_plans), context)

\* Constraint.is_violated, by kind of constraint
constraint_is_violated(constraint, well_plans, context) ==
    IF constraint.kind = "capex" THEN capex_is_violated(constraint, well_plans, context)
    ELSE oil_is_violated(constraint, well_plans, context)

\* ConstraintManager.is_violated
is_violated(well_plans, context) ==
    \E k \in DOMAIN constraints : constraint_is_violated(constraints[k], well_plans, context)

\* ConstraintManager.time_bounds, as a set (the list is sorted)
time_bounds ==
    UNION {{Get(constraints[k].bounds[i].year) :
                i \in {j \in DOMAIN constraints[k].bounds :
                            ~IsNone(constraints[k].bounds[j].year)}} :
           k \in DOMAIN constraints}

\* min of the bound years after current_year, or None
_first_of(later) == IF later = {} THEN None ELSE Some(MinOf(later))

\* no boundary year is ever found
get_period_end_none(current_year) == None

\* ConstraintManager.get_period_end: the first bound year after current_year, or None
get_period_end(current_year) == _first_of({y \in time_bounds : y > current_year})

----------------------------------------------------------------------------
(* builder.py: PlanBuilder.  A run of compile is the record of its state.   *)

Run == [remaining_wells |-> remaining_wells, current_start |-> current_start,
        plan |-> plan, states |-> states, usage_counts |-> usage_counts,
        affected_clusters |-> affected_clusters, pc |-> pc, last |-> last]

\* WellPlanContext(well, start=..., end=...)
WellPlanContext(well, start_date, end_date) ==
    [well |-> well, start |-> start_date, end |-> end_date, entries |-> <<>>,
     cost |-> None, oil_prod_profile |-> <<>>, liq_prod_profile |-> <<>>,
     metadata |-> <<>>]

\* `all` written for `any`: finished once some remaining well is of another cluster
_is_cluster_finished_all(remaining, cluster) ==
    IF IsNone(cluster) THEN TRUE
    ELSE ~(\A i \in DOMAIN remaining : remaining[i].cluster = Get(cluster))

\* PlanBuilder._is_cluster_finished
_is_cluster_finished(remaining, cluster) ==
    IF IsNone(cluster) THEN TRUE
    ELSE ~(\E i \in DOMAIN remaining : remaining[i].cluster = Get(cluster))

\* the finish date is not compared with the end of the plan
_profiled_any_finish(got) ==
    IF got.raised THEN [kind |-> "raised"]
    ELSE IF got.context.entries = <<>> THEN [kind |-> "none"]
    ELSE [kind |-> "ok", context |-> profiler_compute(got.context)]

\* PlanBuilder._build_context after get_assignments: "none" for None, "raised"
\* when get_assignments raised
_profiled(got) ==
    IF got.raised THEN [kind |-> "raised"]
    ELSE IF get_next_available_date(got.context) > end \/ got.context.entries = <<>>
    THEN [kind |-> "none"]
    ELSE [kind |-> "ok", context |-> profiler_compute(got.context)]

\* the context starts at current_start: the ready date of the well is ignored
_build_context_from_start(s, well) ==
    IF ~_is_cluster_finished(s.remaining_wells, well.depend_from_cluster)
    THEN [kind |-> "none"]
    ELSE _profiled(get_assignments(s.states, s.usage_counts,
            WellPlanContext(well, s.current_start, end)))

\* PlanBuilder._build_context
_build_context(s, well) ==
    IF ~_is_cluster_finished(s.remaining_wells, well.depend_from_cluster)
    THEN [kind |-> "none"]
    ELSE _profiled(get_assignments(s.states, s.usage_counts,
            WellPlanContext(well, Max2(get_ready_date(well), s.current_start), end)))

\* PlanBuilder._build_contexts: `if context: contexts.append(context)`
_collect(built, rest) ==
    IF built.kind = "raised" THEN [raised |-> TRUE, contexts |-> <<>>]
    ELSE IF rest.raised THEN rest
    ELSE [raised |-> FALSE,
          contexts |-> (IF built.kind = "ok" THEN <<built.context>> ELSE <<>>)
                            \o rest.contexts]

RECURSIVE _build_contexts_from(_, _)
_build_contexts_from(s, i) ==
    IF i > Len(s.remaining_wells) THEN [raised |-> FALSE, contexts |-> <<>>]
    ELSE _collect(_build_context(s, s.remaining_wells[i]), _build_contexts_from(s, i + 1))

\* PlanBuilder._build_contexts
_build_contexts(s) == _build_contexts_from(s, 1)

\* candidate.well.init_entry_date or min_date
_entry_date_or_min(context) ==
    IF ~IsNone(context.well.init_entry_date)
    THEN Get(context.well.init_entry_date) ELSE datetime_min

\* a candidate of an equal date replaces the one kept
_keep_earliest_or_equal(kept, candidate, at) ==
    IF at = {} THEN Append(kept, candidate)
    ELSE IF \E k \in at : _entry_date_or_min(kept[k]) >= _entry_date_or_min(candidate)
    THEN [k \in DOMAIN kept |-> IF k \in at THEN candidate ELSE kept[k]]
    ELSE kept

\* PlanBuilder._filter_candidates: one pass of the loop over candidates, `at` the
\* places of the candidate's cluster in earliest_per_cluster
_keep_earliest(kept, candidate, at) ==
    IF at = {} THEN Append(kept, candidate)
    ELSE IF \E k \in at : _entry_date_or_min(kept[k]) > _entry_date_or_min(candidate)
    THEN [k \in DOMAIN kept |-> IF k \in at THEN candidate ELSE kept[k]]
    ELSE kept

RECURSIVE _earliest_per_cluster(_, _, _)
\* PlanBuilder._filter_candidates: the loop filling earliest_per_cluster, a dict in
\* insertion order, kept as the list of its values
_earliest_per_cluster(candidates, i, kept) ==
    IF i > Len(candidates) THEN kept
    ELSE _earliest_per_cluster(candidates, i + 1,
            _keep_earliest(kept, candidates[i],
                {k \in DOMAIN kept : kept[k].well.cluster = candidates[i].well.cluster}))

\* the cluster-ordering step is skipped whatever cluster_ordered
_cluster_ordering_skipped(candidates) == candidates

\* PlanBuilder._filter_candidates: the cluster-ordering step
_cluster_ordering(candidates) ==
    IF cluster_ordered /\ candidates # <<>>
    THEN _earliest_per_cluster(candidates, 1, <<>>)
    ELSE candidates

\* PlanBuilder._filter_candidates: risk and cost applied to every candidate
_risk_and_cost(affected, candidates) ==
    [i \in DOMAIN candidates |->
        cost_function_compute(
            IF risk_strategy THEN apply_risk(affected, candidates[i])
            ELSE candidates[i])]

RECURSIVE _drop_violating(_, _, _)
_drop_violating(well_plans, candidates, i) ==
    IF i > Len(candidates) THEN <<>>
    ELSE (IF ~is_violated(well_plans, candidates[i]) THEN <<candidates[i]>> ELSE <<>>)
            \o _drop_violating(well_plans, candidates, i + 1)

\* PlanBuilder._filter_candidates
_filter_candidates(s, candidates) ==
    _drop_violating(s.plan,
        _risk_and_cost(s.affected_clusters, _cluster_ordering(candidates)), 1)

\* PlanBuilder._select_best_candidate with keep_order: min(..., key=init_entry_date)
\* compares the keys of any two candidates with <, which raises TypeError on None
_keep_order_raises(candidates) ==
    /\ Len(candidates) >= 2
    /\ \E i \in DOMAIN candidates : IsNone(candidates[i].well.init_entry_date)

\* max written for min: the candidate with the latest entry date
_keep_order_choice_latest(candidates) ==
    MinOf({i \in DOMAIN candidates :
            \A j \in DOMAIN candidates :
                Get(candidates[i].well.init_entry_date)
                    >= Get(candidates[j].well.init_entry_date)})

\* min(candidates, key=...): the first candidate with the least key
_keep_order_choice(candidates) ==
    MinOf({i \in DOMAIN candidates :
            \A j \in DOMAIN candidates :
                Get(candidates[i].well.init_entry_date)
                    <= Get(candidates[j].well.init_entry_date)})

\* PlanBuilder._simulated_annealing_selection: the candidates it can return.  With
\* no costed candidate it returns candidates[0]; otherwise the random draws (the
\* 60% branch, random.choice, the jittered scores and the Metropolis test) can end
\* on any costed candidate.
_simulated_annealing_selection(candidates) ==
    IF \A i \in DOMAIN candidates : IsNone(candidates[i].cost) THEN {1}
    ELSE {i \in DOMAIN candidates : ~IsNone(candidates[i].cost)}

\* keep_order is ignored: the annealing selection is always used
_select_best_candidate_annealed(candidates) == _simulated_annealing_selection(candidates)

\* the penalty is left out of the key whatever use_drill_team_penalty
_greedy_key_cost_only(candidate) == Get(candidate.cost)

\* the greedy PlanBuilder._select_best_candidate: the key of max(...)
_greedy_key(candidate) ==
    Get(candidate.cost)
        - (IF use_drill_team_penalty
           THEN DictGet(candidate.metadata, "drill_team_penalty", 0) ELSE 0)

\* the greedy PlanBuilder._select_best_candidate: (c for c in candidates if c.cost
\* is not None)
_costed(candidates) == {i \in DOMAIN candidates : ~IsNone(candidates[i].cost)}

\* the greedy PlanBuilder._select_best_candidate: max(..., key=...) returns the
\* first candidate of the greatest key
_greedy_choice(candidates) ==
    MinOf({i \in _costed(candidates) :
            \A j \in _costed(candidates) :
                _greedy_key(candidates[i]) >= _greedy_key(candidates[j])})

\* max() of an empty generator raises ValueError; min(...) of the keep_order branch
\* raises as in the annealing builder
_select_best_candidate_raises(candidates) ==
    IF keep_order THEN _keep_order_raises(candidates)
    ELSE selection = "greedy" /\ _costed(candidates) = {}

\* PlanBuilder._select_best_candidate: the indices it can return
_select_best_candidate(candidates) ==
    IF keep_order
    THEN (IF Len(candidates) = 1 THEN {1} ELSE {_keep_order_choice(candidates)})
    ELSE IF selection = "greedy" THEN {_greedy_choice(candidates)}
    ELSE _simulated_annealing_selection(candidates)

----------------------------------------------------------------------------
(* The inputs of compile: bounded families of well lists, team pools,       *)
(* quota tables and constraints                                             *)

BaseYear == 2024

\* A Well; the name "w<i>" is kept as i.  field, layer and purpose play no part.
Well0 ==
    [name |-> 0, cluster |-> "c1", well_type |-> <<GS>>, oil_rate |-> 25,
     liq_rate |-> 50, length |-> 10, init_entry_date |-> None,
     readiness_date |-> None, depend_from_cluster |-> None]

Clusters == {"c1", "c2"}
AllRounder == {"DRILLING", "GTM"}

\* the lists of MaxWells wells whose i-th well is Make(i, t[i]) for a choice t of templates
WellLists(Templates, Make(_, _)) ==
    {[i \in 1..MaxWells |-> Make(i, t[i])] : t \in [1..MaxWells -> Templates]}

Config0 ==
    [wells |-> <<>>, team_pool |-> <<AllRounder>>, limits |-> <<>>, constraints |-> <<>>,
     start |-> datetime(BaseYear, 1, 1), end |-> datetime(BaseYear + HorizonYears, 1, 1),
     keep_order |-> FALSE, cluster_ordered |-> TRUE, risk_strategy |-> FALSE,
     cost_function |-> "npv", cost_table |-> <<>>,
     selection |-> "annealing", use_drill_team_penalty |-> TRUE]

\* cluster dependencies: every cluster and dependency, entry dates falling with
\* the position in the list
DepConfigs ==
    {[Config0 EXCEPT !.wells = ws, !.keep_order = kc[1], !.cluster_ordered = kc[2]] :
        ws \in WellLists(Clusters \X ({None} \cup {Some(c) : c \in Clusters}),
                  LAMBDA i, t : [Well0 EXCEPT !.name = i, !.cluster = t[1],
                                    !.depend_from_cluster = t[2],
                                    !.init_entry_date = Some(datetime(BaseYear, 1, 1) + MaxWells - i)]),
        kc \in {<<FALSE, FALSE>>, <<FALSE, TRUE>>, <<TRUE, TRUE>>}}

\* teams and quotas: wells of one or two tasks, pools whose teams share a task or
\* miss one, a quota of one drilling team in the first year, a start late in it
TeamConfigs ==
    {[Config0 EXCEPT !.wells = ws, !.team_pool = pool, !.limits = lim,
                     !.start = datetime(BaseYear, 11, 1)] :
        ws \in WellLists({<<"c1", <<GRP>>>>, <<"c1", <<GS, GRP>>>>,
                          <<"c1", <<GS, NNS>>>>, <<"c2", <<GS, GRP>>>>},
                  LAMBDA i, t : [Well0 EXCEPT !.name = i, !.cluster = t[1],
                                              !.well_type = t[2]]),
        pool \in {<<AllRounder, {"DRILLING"}>>, <<{"DRILLING"}, {"GTM"}>>, <<{"DRILLING"}>>},
        lim \in {<<>>, (BaseYear :> ("DRILLING" :> 1))}}

\* ConstraintBound(value, year)
ConstraintBound(value, yr) == [value |-> value, year |-> yr]

CapexConstraint(bounds) == [kind |-> "capex", bounds |-> bounds]
OilConstraint(bounds) == [kind |-> "oil", bounds |-> bounds]

\* the constraint lists tried: a capex cap of one year, a general capex cap under
\* a looser cap of a later year, an oil cap of one year, a general oil cap, two
\* capex caps of one year under a looser general cap
ConstraintLists ==
    {<<CapexConstraint(<<ConstraintBound(30, Some(BaseYear))>>)>>,
     <<CapexConstraint(<<ConstraintBound(15, None),
                         ConstraintBound(30, Some(BaseYear + 2))>>)>>,
     <<OilConstraint(<<ConstraintBound(22000, Some(BaseYear))>>)>>,
     <<OilConstraint(<<ConstraintBound(30000, None)>>)>>,
     <<CapexConstraint(<<ConstraintBound(40, None), ConstraintBound(30, Some(BaseYear)),
                         ConstraintBound(15, Some(BaseYear))>>)>>}

\* constraints and risk: wells of two lengths and two oil rates, entry dates
\* rising with the position in the list
ConstraintConfigs ==
    {[Config0 EXCEPT !.wells = ws, !.constraints = cs, !.risk_strategy = rk[1],
                     !.keep_order = rk[2]] :
        ws \in WellLists({<<"c1", 10, 25>>, <<"c1", 20, 50>>, <<"c2", 0, 25>>},
                  LAMBDA i, t : [Well0 EXCEPT !.name = i, !.cluster = t[1],
                                    !.length = t[2], !.oil_rate = t[3],
                                    !.init_entry_date = Some(datetime(BaseYear, 1, 1) + i)]),
        cs \in ConstraintLists,
        rk \in {<<FALSE, FALSE>>, <<FALSE, TRUE>>, <<TRUE, TRUE>>}}

\* constraints under a horizon that ends twenty days into its second year
HorizonConfigs ==
    {[Config0 EXCEPT !.wells = [i \in 1..MaxWells |->
                                    [Well0 EXCEPT !.name = i, !.length = 20,
                                                  !.oil_rate = 50]],
                     !.constraints = cs, !.end = datetime(BaseYear + 1, 1, 21)] :
        cs \in ConstraintLists}

\* keep_order: entry dates in any order, some of them missing, a horizon of
\* HorizonYears years or of 45 days
OrderConfigs ==
    {[Config0 EXCEPT !.wells = ws, !.keep_order = TRUE, !.cluster_ordered = co,
                     !.end = e] :
        ws \in WellLists({<<"c1", None>>, <<"c1", Some(datetime(BaseYear, 2, 1))>>,
                          <<"c2", Some(datetime(BaseYear, 1, 1))>>,
                          <<"c2", Some(datetime(BaseYear, 2, 1))>>},
                  LAMBDA i, t : [Well0 EXCEPT !.name = i, !.cluster = t[1],
                                              !.init_entry_date = t[2]]),
        co \in BOOLEAN,
        e \in {datetime(BaseYear + HorizonYears, 1, 1), datetime(BaseYear, 2, 16)}}

\* a cost function that prices wells from a table, None included
TableConfigs ==
    {[Config0 EXCEPT !.wells = [i \in 1..MaxWells |->
                                    [Well0 EXCEPT !.name = i,
                                        !.cluster = IF i % 2 = 1 THEN "c1" ELSE "c2"]],
                     !.cost_function = "table", !.cost_table = tbl,
                     !.cluster_ordered = FALSE] :
        tbl \in [1..MaxWells -> {None, Some(-5), Some(7)}]}

\* a pool of two drilling teams and no other; wells to drill, some of them
\* waiting for the other cluster, and wells that need a GTM team
UnsupportedConfigs ==
    {[Config0 EXCEPT !.wells = ws, !.team_pool = <<{"DRILLING"}, {"DRILLING"}>>] :
        ws \in WellLists({<<"c1", <<GS>>, None>>, <<"c2", <<GS>>, Some("c1")>>,
                          <<"c2", <<GS, GRP>>, Some("c1")>>, <<"c2", <<GRP>>, None>>},
                  LAMBDA i, t : [Well0 EXCEPT !.name = i, !.cluster = t[1],
                                              !.well_type = t[2],
                                              !.depend_from_cluster = t[3]])}

\* infrastructure readiness: wells ready at any time, ready just in time to be
\* drilled by the end, or a day too late; with or without a capex cap on the
\* first year
ReadyConfigs ==
    {[Config0 EXCEPT !.wells = ws, !.team_pool = <<{"DRILLING"}, {"DRILLING"}>>,
                     !.constraints = cs, !.cluster_ordered = FALSE] :
        ws \in WellLists({None, Some(Config0.end - DRILLING_days),
                          Some(Config0.end - DRILLING_days + 1)},
                  LAMBDA i, t : [Well0 EXCEPT !.name = i, !.readiness_date = t]),
        cs \in {<<>>, <<CapexConstraint(<<ConstraintBound(15, Some(BaseYear))>>)>>}}

\* quotas of two years: two drilling teams under yearly limits on DRILLING
QuotaConfigs ==
    {[Config0 EXCEPT !.wells = ws, !.team_pool = <<{"DRILLING"}, {"DRILLING"}>>,
                     !.limits = lim] :
        ws \in WellLists({"c1"}, LAMBDA i, t : [Well0 EXCEPT !.name = i, !.cluster = t]),
        lim \in {(BaseYear :> ("DRILLING" :> 2)) @@ (BaseYear + 1 :> ("DRILLING" :> 1)),
                 (BaseYear :> ("DRILLING" :> 1)) @@ (BaseYear + 1 :> ("DRILLING" :> 2)),
                 (BaseYear + 1 :> (("DRILLING" :> 1) @@ ("GTM" :> 1))),
                 (BaseYear :> ("DRILLING" :> 0)) @@ (BaseYear + 1 :> ("DRILLING" :> 1))}}

\* equal well records: every list of MaxWells wells drawn from two records
DuplicateConfigs ==
    {[Config0 EXCEPT !.wells = ws, !.cluster_ordered = co] :
        ws \in WellLists(Clusters,
                  LAMBDA i, t : [Well0 EXCEPT !.name = IF t = "c1" THEN 1 ELSE 2,
                                              !.cluster = t]),
        co \in BOOLEAN}

Configs == DepConfigs \cup TeamConfigs \cup ConstraintConfigs \cup HorizonConfigs
                \cup OrderConfigs \cup TableConfigs \cup UnsupportedConfigs
                \cup ReadyConfigs \cup QuotaConfigs

\* a run of compile before its first iteration
Run0 ==
    [remaining_wells |-> wells, current_start |-> start, plan |-> <<>>,
     states |-> [t \in Teams |-> TeamState0],
     usage_counts |-> [p \in LimitPairs |-> {}],
     affected_clusters |-> <<>>, pc |-> "loop", last |-> "init"]

InitRunOf(cfgs) ==
    /\ \E cfg \in cfgs :
        /\ wells = cfg.wells
        /\ team_pool = cfg.team_pool
        /\ limits = cfg.limits
        /\ constraints = cfg.constraints
        /\ start = cfg.start
        /\ end = cfg.end
        /\ keep_order = cfg.keep_order
        /\ cluster_ordered = cfg.cluster_ordered
        /\ risk_strategy = cfg.risk_strategy
        /\ cost_function = cfg.cost_function
        /\ cost_table = cfg.cost_table
        /\ selection = cfg.selection
        /\ use_drill_team_penalty = cfg.use_drill_team_penalty
    /\ remaining_wells = Run0.remaining_wells
    /\ current_start = Run0.current_start
    /\ plan = Run0.plan
    /\ states = Run0.states
    /\ usage_counts = Run0.usage_counts
    /\ affected_clusters = Run0.affected_clusters
    /\ pc = Run0.pc
    /\ last = Run0.last
    /\ profit = None
    /\ twin = Run0

InitOf(cfgs) == InitRunOf(cfgs) /\ sa = <<>>

Init == InitOf(Configs)

----------------------------------------------------------------------------
(* PlanBuilder.compile: one iteration of its while loop, from the state s   *)
(* of a run to the states the iteration can leave                           *)

\* while self.remaining_wells and current_start < self.end
_loop_condition(s) == s.remaining_wells # <<>> /\ s.current_start < end

\* the move goes to 1 January of the current year: current_start does not advance
_next_start_this_year(next_year, current_year) == datetime(current_year, 1, 1)

\* the move goes to the next year whatever the constraint boundaries
_next_start_next_year(next_year, current_year) == datetime(current_year + 1, 1, 1)

\* if not candidates: the new current_start
_next_start(next_year, current_year) ==
    datetime(IF ~IsNone(next_year) /\ Get(next_year) # 0
             THEN Get(next_year) ELSE current_year + 1, 1, 1)

\* the context is put in front of the plan instead of at its end
_commit_in_front(s, well, assigned, risked) ==
    [s EXCEPT
        !.states = assigned.states,
        !.usage_counts = assigned.usage_counts,
        !.remaining_wells = ListRemove(@, well),
        !.affected_clusters = risked.affected,
        !.plan = <<risked.context>> \o @,
        !.last = "select"]

\* every well equal to the selected one is taken out of remaining_wells
_commit_removing_equal(s, well, assigned, risked) ==
    [s EXCEPT
        !.states = assigned.states,
        !.usage_counts = assigned.usage_counts,
        !.remaining_wells = SelectSeq(@, LAMBDA w : w # well),
        !.affected_clusters = risked.affected,
        !.plan = Append(@, risked.context),
        !.last = "select"]

\* manager.assign, remaining_wells.remove and plan.add_context for the selected
\* candidate, risked the outcome of define_risk
_commit(s, well, assigned, risked) ==
    [s EXCEPT
        !.states = assigned.states,
        !.usage_counts = assigned.usage_counts,
        !.remaining_wells = ListRemove(@, well),
        !.affected_clusters = risked.affected,
        !.plan = Append(@, risked.context),
        !.last = "select"]

\* if self.risk_strategy: define_risk and a second cost_function.compute
_risk_after_selection(affected, best_candidate, triggered) ==
    IF risk_strategy
    THEN [define_risk(affected, best_candidate, triggered)
            EXCEPT !.context = cost_function_compute(@)]
    ELSE [affected |-> affected, context |-> best_candidate]

\* the iteration from _select_best_candidate on
_select(s, best_candidate, triggered) ==
    _commit(s, best_candidate.well,
            assign(s.states, s.usage_counts, best_candidate),
            _risk_after_selection(s.affected_clusters, best_candidate, triggered))

\* the iteration after _filter_candidates
_filtered(s, candidates) ==
    IF candidates = <<>>
    THEN {[s EXCEPT
            !.current_start = _next_start(get_period_end(year(s.current_start)),
                                          year(s.current_start)),
            !.last = "backoff"]}
    ELSE IF _select_best_candidate_raises(candidates)
    THEN {[s EXCEPT !.pc = "error", !.last = "raise_select"]}
    ELSE {_select(s, candidates[i], triggered) :
            i \in _select_best_candidate(candidates),
            triggered \in (IF risk_strategy THEN BOOLEAN ELSE {FALSE})}

\* the error of get_assignments is swallowed: compile returns the plan built so far
_built_returning_plan(s, built) ==
    IF built.raised \/ built.contexts = <<>> THEN {[s EXCEPT !.pc = "done", !.last = "break"]}
    ELSE _filtered(s, _filter_candidates(s, built.contexts))

\* the iteration after _build_contexts
_built(s, built) ==
    IF built.raised THEN {[s EXCEPT !.pc = "error", !.last = "raise_build"]}
    ELSE IF built.contexts = <<>> THEN {[s EXCEPT !.pc = "done", !.last = "break"]}
    ELSE _filtered(s, _filter_candidates(s, built.contexts))

\* PlanBuilder.compile: the states one evaluation of the loop condition and the
\* iteration it admits can leave, each tagged in `last` with the way it took
compile_step(s) ==
    IF s.pc # "loop" THEN {}
    ELSE IF ~_loop_condition(s) THEN {[s EXCEPT !.pc = "done", !.last = "exit"]}
    ELSE _built(s, _build_contexts(s))

Load(t) ==
    /\ remaining_wells' = t.remaining_wells
    /\ current_start' = t.current_start
    /\ plan' = t.plan
    /\ states' = t.states
    /\ usage_counts' = t.usage_counts
    /\ affected_clusters' = t.affected_clusters
    /\ pc' = t.pc
    /\ last' = t.last
    /\ UNCHANGED <<inputs, profit, sa>>

\* the loop condition fails: return plan
Exit == (\E t \in compile_step(Run) : t.last = "exit" /\ Load(t)) /\ UNCHANGED twin

\* get_assignments raises for some well: compile raises
RaiseInBuild ==
    (\E t \in compile_step(Run) : t.last = "raise_build" /\ Load(t)) /\ UNCHANGED twin

\* candidates = self._build_contexts(...); if not candidates: break
Break == (\E t \in compile_step(Run) : t.last = "break" /\ Load(t)) /\ UNCHANGED twin

\* no candidate is left after filtering: move current_start and continue
Backoff == (\E t \in compile_step(Run) : t.last = "backoff" /\ Load(t)) /\ UNCHANGED twin

\* _select_best_candidate raises (keep_order, a candidate without init_entry_date)
RaiseInSelect ==
    (\E t \in compile_step(Run) : t.last = "raise_select" /\ Load(t)) /\ UNCHANGED twin

\* a candidate is selected and appended to the plan
Select == (\E t \in compile_step(Run) : t.last = "select" /\ Load(t)) /\ UNCHANGED twin

\* plan.total_profit() on the plan compile returned
Report ==
    /\ pc = "done"
    /\ pc' = "reported"
    /\ profit' = Some(total_profit(plan))
    /\ UNCHANGED <<inputs, remaining_wells, current_start, plan, states, usage_counts,
                   affected_clusters, last, twin, sa>>

Next == Exit \/ RaiseInBuild \/ Break \/ Backoff \/ RaiseInSelect \/ Select \/ Report

Spec == Init /\ [][Next]_vars

\* compile also on lists that hold equal well records
SpecDuplicates == InitOf(Configs \cup DuplicateConfigs) /\ [][Next]_vars

\* two drilling teams and wells of two clusters: a team that stands on the cluster
\* of a candidate puts a drill team penalty on it
PenaltyConfigs ==
    {[Config0 EXCEPT !.wells = ws, !.team_pool = <<{"DRILLING"}, {"DRILLING"}>>] :
        ws \in WellLists(Clusters,
                  LAMBDA i, t : [Well0 EXCEPT !.name = i, !.cluster = t])}

\* the greedy builder: the same compile with the greedy _select_best_candidate,
\* with and without the drill team penalty
GreedyConfigs ==
    {[cfg EXCEPT !.selection = "greedy", !.use_drill_team_penalty = u] :
        cfg \in ConstraintConfigs \cup TableConfigs \cup UnsupportedConfigs
                    \cup TeamConfigs \cup ReadyConfigs \cup PenaltyConfigs,
        u \in BOOLEAN}

SpecGreedy == InitOf(GreedyConfigs) /\ [][Next]_vars


----------------------------------------------------------------------------
(* Two runs of compile with keep_order=True on the same inputs, each with   *)
(* its own fresh team manager and risk strategy, advanced together          *)

TwinConfigs == {cfg \in Configs : cfg.keep_order}

\* both runs pass one evaluation of the loop
CompileBoth ==
    \E t \in compile_step(Run) : \E u \in compile_step(twin) : Load(t) /\ twin' = u

\* the second run has ended, the first goes on
CompileFirst ==
    /\ twin.pc # "loop"
    /\ \E t \in compile_step(Run) : Load(t)
    /\ UNCHANGED twin

\* the first run has ended, the second goes on
CompileSecond ==
    /\ pc # "loop"
    /\ \E u \in compile_step(twin) : twin' = u
    /\ UNCHANGED <<inputs, run_vars, profit, sa>>

NextTwin == CompileBoth \/ CompileFirst \/ CompileSecond

SpecTwin == InitOf(TwinConfigs) /\ [][NextTwin]_vars

----------------------------------------------------------------------------
(* Simulated annealing: PlanBuilder._simulated_annealing_selection among    *)
(* more than three costed candidates (builder.py) and                       *)
(* SimulatedAnnealingPlanner.optimize of a plan (services/optimization.py). *)
(* A temperature is kept in units of 1/TempUnit, a cooling rate in percent. *)

TempUnit == 10000

\* the keyword defaults of _simulated_annealing_selection
initial_temp == 1000
cooling_rate == 95
min_temp == 1
iterations_per_temp == 10
\* the default of SimulatedAnnealingPlanner.__init__(iterations)
iterations == 100

Schedule(t0, rate, tmin, n) ==
    [initial_temp |-> t0, cooling_rate |-> rate, min_temp |-> tmin, iterations |-> n]

\* the temperature is multiplied twice
_cooled_twice(temp, schedule) ==
    (((temp * schedule.cooling_rate) \div 100) * schedule.cooling_rate) \div 100

\* temp *= cooling_rate
_cooled(temp, schedule) == (temp * schedule.cooling_rate) \div 100

\* while temp > min_temp
_hot(temp, schedule) == temp > schedule.min_temp * TempUnit

\* a candidate of the selection: WellPlanContext.cost, metadata
\* 'drill_team_penalty' and the days from start to the first entry
Candidate(cost, penalty, days) ==
    [cost |-> cost, drill_team_penalty |-> penalty, days_from_start |-> days]

\* random.uniform(0.95, 1.05), in percent
random_factor == {95, 100, 105}

\* time_factor = max(0.8, 1.0 - days_from_start / 365.0), in percent
time_factor(candidate) ==
    IF IsNone(candidate.days_from_start) THEN 100
    ELSE Max2(80, 100 - (Get(candidate.days_from_start) * 100) \div 365)

\* the scores one call of _calculate_candidate_score can give a candidate
_calculate_candidate_score(candidate) ==
    {((IF IsNone(candidate.cost) THEN 0 ELSE Get(candidate.cost))
        - candidate.drill_team_penalty) * f * time_factor(candidate) :
            f \in random_factor}

\* valid_candidates = [c for c in candidates if c.cost is not None], as the
\* set of their places in candidates
valid_candidates(candidates) == {i \in DOMAIN candidates : ~IsNone(candidates[i].cost)}

\* candidates whose cost is within 20% of the current one's
similar_candidates(candidates, current) ==
    {i \in valid_candidates(candidates) :
        LET d == Get(candidates[i].cost) - Get(candidates[current].cost)
        IN  5 * (IF d < 0 THEN -d ELSE d) <= Get(candidates[current].cost)}

\* the candidates _get_neighbor_candidate can return
_get_neighbor_candidate(candidates, current) ==
    valid_candidates(candidates)
        \cup (IF similar_candidates(candidates, current) # {}
              THEN similar_candidates(candidates, current)
              ELSE valid_candidates(candidates))

\* the answers of _accept_solution: a score not below the current one is
\* always accepted (exp(0) = 1.0 exceeds every random.random()), a lower one
\* by the draw
_accept_solution(current_score, new_score) ==
    IF new_score >= current_score THEN {TRUE} ELSE BOOLEAN

\* a well plan of the planner's plan: WellPlanContext.cost and the number
\* of its entries
WellPlan(cost, entries) == [cost |-> cost, entries |-> entries]

\* a float of FloatBits bits of mantissa nearest to x >= 0, ties to even
FloatBits == 3

RECURSIVE _ulp(_)
_ulp(x) == IF x < 2 ^ FloatBits THEN 1 ELSE 2 * _ulp(x \div 2)

_round_to(x, u) ==
    IF 2 * (x % u) > u \/ (2 * (x % u) = u /\ (x \div u) % 2 = 1)
    THEN (x \div u + 1) * u ELSE (x \div u) * u

_float(x) == _round_to(x, _ulp(x))

\* WellPlan.total_profit over the well plans of a plan taken in the given
\* order: sum(wp.cost for wp in well_plans if wp.cost is not None)
RECURSIVE _sum_costs(_, _, _)
_sum_costs(well_plans, order, acc) ==
    IF order = <<>> THEN acc
    ELSE _sum_costs(well_plans, Tail(order),
                    IF IsNone(well_plans[Head(order)].cost) THEN acc
                    ELSE _float(acc + Get(well_plans[Head(order)].cost)))

_calculate_cost(well_plans, order) == _sum_costs(well_plans, order, 0)

\* the well plan at j is copied to i and the one at i is lost
swap_wells_copying(order, i, j) == [order EXCEPT ![i] = order[j]]

\* new_plan.well_plans[i], new_plan.well_plans[j] = ..[j], ..[i]
swap_wells(order, i, j) == [order EXCEPT ![i] = order[j], ![j] = order[i]]

\* the plans _get_neighbor can return: 'swap_wells' exchanges two well
\* plans of a plan of more than one and changes nothing of a shorter plan,
\* 'shift_well' and 'reassign_team' change nothing of a well plan without
\* entries
_get_neighbor(well_plans, order) ==
    (IF Len(order) > 1
     THEN {swap_wells(order, i, j) : i, j \in DOMAIN order} \ {order}
     ELSE {order})
        \cup {order : i \in {k \in DOMAIN order : well_plans[order[k]].entries = 0}}

\* _get_neighbor can raise: random.randint(0, -1) on an empty plan, and
\* 'shift_well' and 'reassign_team' assign to a field of a frozen
\* ScheduleEntry
_get_neighbor_raises(well_plans, order) ==
    \/ order = <<>>
    \/ \E k \in DOMAIN order : well_plans[order[k]].entries > 0

\* the state of a run: current and best are candidates of the selection
\* (places in candidates) or plans of the planner (orders of the well
\* plans), steps counts the evaluations of the loop body
Anneal0(kind, schedule, candidates, well_plans) ==
    [kind |-> kind, schedule |-> schedule, candidates |-> candidates,
     well_plans |-> well_plans, pc |-> "start",
     temp |-> schedule.initial_temp * TempUnit, it |-> 0, steps |-> 0,
     current |-> None, current_score |-> 0, best |-> None, best_score |-> 0,
     first_score |-> 0, result |-> None]

\* current_candidate = random.choice(valid_candidates); best = current
_selection_started(s, candidate, score) ==
    [s EXCEPT !.pc = "loop", !.current = candidate, !.current_score = score,
              !.best = candidate, !.best_score = score, !.first_score = score]

\* a higher score is recorded without its candidate
_selection_step_score_only(s, neighbor, neighbor_score, accept) ==
    IF ~accept THEN [s EXCEPT !.it = @ + 1, !.steps = @ + 1]
    ELSE IF neighbor_score > s.best_score
    THEN [s EXCEPT !.it = @ + 1, !.steps = @ + 1,
                   !.current = neighbor, !.current_score = neighbor_score,
                   !.best_score = neighbor_score]
    ELSE [s EXCEPT !.it = @ + 1, !.steps = @ + 1,
                   !.current = neighbor, !.current_score = neighbor_score]

\* one evaluation of the body of the selection's inner loop
_selection_step(s, neighbor, neighbor_score, accept) ==
    IF ~accept THEN [s EXCEPT !.it = @ + 1, !.steps = @ + 1]
    ELSE IF neighbor_score > s.best_score
    THEN [s EXCEPT !.it = @ + 1, !.steps = @ + 1,
                   !.current = neighbor, !.current_score = neighbor_score,
                   !.best = neighbor, !.best_score = neighbor_score]
    ELSE [s EXCEPT !.it = @ + 1, !.steps = @ + 1,
                   !.current = neighbor, !.current_score = neighbor_score]

\* current_plan = best_plan = deepcopy(plan), costs by _calculate_cost
_optimize_started(s, order, cost) ==
    [s EXCEPT !.pc = "loop", !.current = order, !.current_score = cost,
              !.best = order, !.best_score = cost, !.first_score = cost]

\* the best plan follows every accepted plan
_optimize_step_last_accepted(s, neighbor, neighbor_cost, accept) ==
    IF ~accept THEN [s EXCEPT !.it = @ + 1, !.steps = @ + 1]
    ELSE [s EXCEPT !.it = @ + 1, !.steps = @ + 1,
                   !.current = neighbor, !.current_score = neighbor_cost,
                   !.best = neighbor, !.best_score = neighbor_cost]

\* one evaluation of the body of optimize's inner loop
_optimize_step(s, neighbor, neighbor_cost, accept) ==
    IF ~accept THEN [s EXCEPT !.it = @ + 1, !.steps = @ + 1]
    ELSE IF neighbor_cost > s.best_score
    THEN [s EXCEPT !.it = @ + 1, !.steps = @ + 1,
                   !.current = neighbor, !.current_score = neighbor_cost,
                   !.best = neighbor, !.best_score = neighbor_cost]
    ELSE [s EXCEPT !.it = @ + 1, !.steps = @ + 1,
                   !.current = neighbor, !.current_score = neighbor_cost]

\* the runs started: each loop with its default schedule on one input and
\* with short schedules on more inputs
ShortSchedules == {Schedule(4, 50, 1, 2), Schedule(2, 50, 1, 3), Schedule(3, 95, 2, 0)}

SelectionSchedule == Schedule(initial_temp, cooling_rate, min_temp, iterations_per_temp)

PlannerSchedule == Schedule(initial_temp, cooling_rate, min_temp, iterations)

DefaultCandidates ==
    <<Candidate(Some(0), 0, None), Candidate(Some(30), 30, None),
      Candidate(Some(20), 0, None), Candidate(Some(30), 0, Some(73))>>

DefaultPlan == <<WellPlan(Some(5), 1), WellPlan(Some(6), 0)>>

CandidateLists ==
    {<<Candidate(Some(20), 0, None), Candidate(Some(30), 0, None),
       Candidate(Some(40), 30, None), Candidate(Some(50), 0, Some(73))>>,
     <<Candidate(None, 0, None), Candidate(Some(20), 0, None),
       Candidate(Some(22), 0, None), Candidate(Some(50), 0, Some(73)),
       Candidate(Some(40), 30, None), Candidate(Some(20), 0, None)>>,
     <<Candidate(Some(20), 0, None), Candidate(None, 0, None),
       Candidate(Some(30), 0, None)>>,
     <<Candidate(None, 0, None), Candidate(None, 5, None)>>}

Plans ==
    {<<>>,
     <<WellPlan(Some(7), 0)>>,
     <<WellPlan(Some(1), 0), WellPlan(Some(16), 0), WellPlan(Some(2), 0)>>,
     <<WellPlan(Some(1), 1), WellPlan(Some(20), 2), WellPlan(Some(6), 1)>>,
     <<WellPlan(Some(7), 1), WellPlan(None, 1), WellPlan(Some(5), 0),
       WellPlan(Some(6), 1)>>}

AnnealRuns ==
    {Anneal0("select", SelectionSchedule, DefaultCandidates, <<>>),
     Anneal0("optimize", PlannerSchedule, <<>>, DefaultPlan)}
    \cup {Anneal0("select", sch, cs, <<>>) : sch \in ShortSchedules, cs \in CandidateLists}
    \cup {Anneal0("optimize", sch, <<>>, wps) : sch \in ShortSchedules, wps \in Plans}

InitAnneal == InitRunOf({Config0}) /\ sa \in AnnealRuns

\* fewer than four costed candidates: candidates[0] when none is costed,
\* else the best by one scoring or a random one
SelectFew ==
    /\ sa.kind = "select" /\ sa.pc = "start"
    /\ Cardinality(valid_candidates(sa.candidates)) <= 3
    /\ \E c \in (IF valid_candidates(sa.candidates) = {} THEN {1}
                 ELSE valid_candidates(sa.candidates)) :
            sa' = [sa EXCEPT !.pc = "returned", !.result = Some(c)]
    /\ UNCHANGED <<inputs, run_vars, profit, twin>>

SelectStart ==
    /\ sa.kind = "select" /\ sa.pc = "start"
    /\ Cardinality(valid_candidates(sa.candidates)) > 3
    /\ \E c \in valid_candidates(sa.candidates) :
        \E score \in _calculate_candidate_score(sa.candidates[c]) :
            sa' = _selection_started(sa, c, score)
    /\ UNCHANGED <<inputs, run_vars, profit, twin>>

SelectIterate ==
    /\ sa.kind = "select" /\ sa.pc = "loop"
    /\ _hot(sa.temp, sa.schedule) /\ sa.it < sa.schedule.iterations
    /\ \E c \in _get_neighbor_candidate(sa.candidates, sa.current) :
        \E score \in _calculate_candidate_score(sa.candidates[c]) :
        \E accept \in _accept_solution(sa.current_score, score) :
            sa' = _selection_step(sa, c, score, accept)
    /\ UNCHANGED <<inputs, run_vars, profit, twin>>

OptimizeStart ==
    /\ sa.kind = "optimize" /\ sa.pc = "start"
    /\ sa' = _optimize_started(sa, [i \in DOMAIN sa.well_plans |-> i],
                               _calculate_cost(sa.well_plans,
                                               [i \in DOMAIN sa.well_plans |-> i]))
    /\ UNCHANGED <<inputs, run_vars, profit, twin>>

OptimizeIterate ==
    /\ sa.kind = "optimize" /\ sa.pc = "loop"
    /\ _hot(sa.temp, sa.schedule) /\ sa.it < sa.schedule.iterations
    /\ \E order \in _get_neighbor(sa.well_plans, sa.current) :
        \E accept \in _accept_solution(sa.current_score,
                                       _calculate_cost(sa.well_plans, order)) :
            sa' = _optimize_step(sa, order, _calculate_cost(sa.well_plans, order),
                                 accept)
    /\ UNCHANGED <<inputs, run_vars, profit, twin>>

\* the exception of _get_neighbor leaves optimize
OptimizeRaise ==
    /\ sa.kind = "optimize" /\ sa.pc = "loop"
    /\ _hot(sa.temp, sa.schedule) /\ sa.it < sa.schedule.iterations
    /\ _get_neighbor_raises(sa.well_plans, sa.current)
    /\ sa' = [sa EXCEPT !.pc = "raised"]
    /\ UNCHANGED <<inputs, run_vars, profit, twin>>

\* the inner loop is over: temp *= cooling_rate
Cool ==
    /\ sa.pc = "loop"
    /\ _hot(sa.temp, sa.schedule) /\ sa.it >= sa.schedule.iterations
    /\ sa' = [sa EXCEPT !.temp = _cooled(sa.temp, sa.schedule), !.it = 0]
    /\ UNCHANGED <<inputs, run_vars, profit, twin>>

\* the while loop is over: return best
Return ==
    /\ sa.pc = "loop"
    /\ ~_hot(sa.temp, sa.schedule)
    /\ sa' = [sa EXCEPT !.pc = "returned", !.result = Some(sa.best)]
    /\ UNCHANGED <<inputs, run_vars, profit, twin>>

NextAnneal ==
    \/ SelectFew \/ SelectStart \/ SelectIterate
    \/ OptimizeStart \/ OptimizeIterate \/ OptimizeRaise
    \/ Cool \/ Return

SpecAnneal == InitAnneal /\ [][NextAnneal]_vars

\* a call that has started goes on until it returns or raises
SpecAnnealFair == SpecAnneal /\ WF_vars(NextAnneal)

----------------------------------------------------------------------------
(* services/optimization.py: SimulatedAnnealingPlanner._get_neighbor on the  *)
(* plan compile returned, with the manager that built it                     *)

\* days_shift = random.randint(-30, 30)
max_days_shift == 30

RECURSIVE _reassign_from(_, _, _)
\* for wp in neighbor.well_plans: manager.assign(wp)
_reassign_from(m, well_plans, i) ==
    IF i > Len(well_plans) THEN m
    ELSE _reassign_from(assign(m.states, m.usage_counts, well_plans[i]), well_plans, i + 1)

\* _get_neighbor returned: the mutation drawn, the neighbor and the manager after
\* the re-assignment pass
_neighbor_returned(mutation, well_plans) ==
    [kind |-> "neighbor", mutation |-> mutation, pc |-> "returned",
     well_plans |-> well_plans,
     manager |-> _reassign_from([states |-> states, usage_counts |-> usage_counts],
                                well_plans, 1)]

\* _get_neighbor raised before the re-assignment pass: the manager is as it was
_neighbor_raised(mutation) ==
    [kind |-> "neighbor", mutation |-> mutation, pc |-> "raised",
     well_plans |-> <<>>,
     manager |-> [states |-> states, usage_counts |-> usage_counts]]

\* the manager is shared with compile: its states are those the call left
LoadNeighbor(n) ==
    /\ sa' = n
    /\ states' = n.manager.states
    /\ usage_counts' = n.manager.usage_counts
    /\ UNCHANGED <<inputs, remaining_wells, current_start, plan, affected_clusters,
                   pc, last, profit, twin>>

\* mutation_type == 'swap_wells': two well plans of a plan of more than one change
\* places; a shorter plan falls through every branch
SwapWells ==
    /\ pc = "done" /\ sa = <<>>
    /\ IF Len(plan) > 1
       THEN \E idx1, idx2 \in DOMAIN plan :
                /\ idx1 # idx2
                /\ LoadNeighbor(_neighbor_returned("swap_wells",
                        [plan EXCEPT ![idx1] = plan[idx2], ![idx2] = plan[idx1]]))
       ELSE LoadNeighbor(_neighbor_returned("swap_wells", plan))

\* mutation_type == 'shift_well': random.randint(0, -1) raises ValueError on an
\* empty plan; `entry.start += ...` assigns to a field of a frozen ScheduleEntry and
\* raises FrozenInstanceError at the first entry of the well drawn
ShiftWell ==
    /\ pc = "done" /\ sa = <<>>
    /\ IF plan = <<>> THEN LoadNeighbor(_neighbor_raised("shift_well"))
       ELSE \E idx \in DOMAIN plan : \E days_shift \in (-max_days_shift)..max_days_shift :
                IF plan[idx].entries # <<>>
                THEN LoadNeighbor(_neighbor_raised("shift_well"))
                ELSE LoadNeighbor(_neighbor_returned("shift_well", plan))

\* mutation_type == 'reassign_team': as 'shift_well', with `entry.team = new_team`
\* on the frozen entry drawn
ReassignTeam ==
    /\ pc = "done" /\ sa = <<>>
    /\ IF plan = <<>> THEN LoadNeighbor(_neighbor_raised("reassign_team"))
       ELSE \E idx \in DOMAIN plan :
                IF plan[idx].entries # <<>>
                THEN \E k \in DOMAIN plan[idx].entries :
                        \E new_team \in Range(get_teams_for_task(plan[idx].entries[k].task)) :
                            LoadNeighbor(_neighbor_raised("reassign_team"))
                ELSE LoadNeighbor(_neighbor_returned("reassign_team", plan))

NextNeighbor == Next \/ SwapWells \/ ShiftWell \/ ReassignTeam

SpecNeighbor == Init /\ [][NextNeighbor]_vars

----------------------------------------------------------------------------
(* services/production.py: LinearProductionProfile.compute on instants that  *)
(* carry a time of day.  An instant is a day and one of DayParts parts of    *)
(* it, counted in parts; timedelta(days=1) is DayParts parts.                *)

DayParts == 2

\* datetime(year, month, day, <part of the day>)
instant(day, part) == day * DayParts + part
day_of(t) == t \div DayParts
part_of(t) == t % DayParts

\* datetime.replace(day=1): the time of day is kept
instant_replace_day_1(t) == instant(replace_day_1(day_of(t)), part_of(t))

\* current_month.replace(month=current_month.month + 1, day=1), or the January of
\* the next year after a December
next_month_of(current_month) == current_month + DaysPerMonth * DayParts

\* (period_end - period_start).days + 1, timedelta.days being the floor
_period_days(first, last_instant, month_start) ==
    ((Min2(last_instant, next_month_of(month_start) - DayParts)
        - Max2(first, month_start)) \div DayParts) + 1

RECURSIVE _monthly_rates_from(_, _, _, _)
\* LinearProductionProfile.compute: the loop `while current_month <= context.end`
_monthly_rates_from(rate, first, last_instant, current_month) ==
    IF ~(current_month <= last_instant) THEN <<>>
    ELSE _month_value(rate, _period_days(first, last_instant, current_month))
         \o _monthly_rates_from(rate, first, last_instant, next_month_of(current_month))

\* LinearProductionProfile.compute: oil_rates for a context whose next available
\* date is `first` and whose end is `last_instant`
linear_profile(rate, first, last_instant) ==
    _monthly_rates_from(rate, first, last_instant, instant_replace_day_1(first))

\* a call of compute: the launch instant, the end of the context, the oil rate
ProfileCall(first, last_instant, rate) ==
    [kind |-> "profile", pc |-> "start", launch |-> first, end |-> last_instant,
     oil_rate |-> rate, oil_prod_profile |-> <<>>]

\* launches on every day of two months at every time of day, ends on the first or
\* the last day of a later month or a year later, at midnight or later in the day
ProfileCalls ==
    {ProfileCall(instant(datetime(BaseYear, 1, 1) + d, p), instant(e, q), Well0.oil_rate) :
        d \in 0..(2 * DaysPerMonth - 1), p \in 0..(DayParts - 1),
        e \in {datetime(BaseYear, 3, 1), datetime(BaseYear, 3, DaysPerMonth),
               datetime(BaseYear + 1, 1, 1)},
        q \in {0, DayParts - 1}}

InitProfile == InitRunOf({Config0}) /\ sa \in ProfileCalls

\* context.oil_prod_profile = oil_rates
ComputeProfile ==
    /\ sa.pc = "start"
    /\ sa' = [sa EXCEPT !.pc = "returned",
                        !.oil_prod_profile = linear_profile(sa.oil_rate, sa.launch, sa.end)]
    /\ UNCHANGED <<inputs, run_vars, profit, twin>>

SpecProfile == InitProfile /\ [][ComputeProfile]_vars

----------------------------------------------------------------------------
(* core/well.py: Well.tasks on well types written with any segments         *)

Letters == {"G", "R", "P", "S", "g", "s"}

\* the segments a well type is written with: every string of at most two letters,
\* the names and the aliases of the tasks, an alias in lower case
Codes ==
    {<<>>} \cup {<<a>> : a \in Letters} \cup {<<a, b>> : a, b \in Letters}
        \cup {name_DRILLING, name_GTM, GS, NNS, MZS, GRP, <<"g", "r", "p">>}

\* a read of well.tasks of a well with one or two "+"-separated segments
TasksCalls ==
    {[kind |-> "tasks", pc |-> "start", well |-> [Well0 EXCEPT !.well_type = t],
      tasks |-> <<>>] : t \in {<<a>> : a \in Codes} \cup {<<a, b>> : a, b \in Codes}}

InitTasks == InitRunOf({Config0}) /\ sa \in TasksCalls

\* tuple(Task.from_code(code.strip()) for code in self.well_type.split("+"))
WellTasks ==
    /\ sa.pc = "start"
    /\ sa' = IF well_tasks_raises(sa.well)
             THEN [sa EXCEPT !.pc = "raised", !.tasks = "ValueError"]
             ELSE [sa EXCEPT !.pc = "returned", !.tasks = well_tasks(sa.well)]
    /\ UNCHANGED <<inputs, run_vars, profit, twin>>

SpecTasks == InitTasks /\ [][WellTasks]_vars

----------------------------------------------------------------------------
(* Properties                                                              *)

\* the plan entries, each named by the place of its well plan and its own place
PlanEntries == UNION {{<<i, a>> : a \in DOMAIN plan[i].entries} : i \in DOMAIN plan}
EntryAt(p) == plan[p[1]].entries[p[2]]
ClusterAt(p) == plan[p[1]].well.cluster

RECURSIVE SumOver(_, _)
\* the sum of f over the indices in S
SumOver(f, S) ==
    IF S = {} THEN 0
    ELSE LET i == CHOOSE i \in S : TRUE IN f[i] + SumOver(f, S \ {i})

\* compile is about to run a round: the loop condition holds
RoundAhead == pc = "loop" /\ _loop_condition(Run)

\* the candidates of the round about to run, after cluster ordering, risk and cost
\* and before the constraints
PricedCandidates ==
    LET built == _build_contexts(Run)
    IN  IF RoundAhead /\ ~built.raised
        THEN _risk_and_cost(affected_clusters, _cluster_ordering(built.contexts))
        ELSE <<>>

\* compile is about to run a round in which no context can be built
NothingBuilt ==
    LET built == _build_contexts(Run)
    IN  RoundAhead /\ ~built.raised /\ built.contexts = <<>>

\* compile is about to run a round whose candidates are all filtered out
AllFilteredOut ==
    LET built == _build_contexts(Run)
    IN  /\ RoundAhead /\ ~built.raised
        /\ built.contexts # <<>>
        /\ _filter_candidates(Run, built.contexts) = <<>>

\* the names of the wells of a plan, in the order of their selection
PlanWells(well_plans) == [i \in DOMAIN well_plans |-> well_plans[i].well.name]

\* C1: when a well W with depend_from_cluster = C is selected and appended to the
\* plan, no well of cluster C is in remaining_wells at that moment
C1_ClusterPrecedence ==
    [][Len(plan') = Len(plan) + 1 =>
        LET W == plan'[Len(plan')].well
        IN  ~IsNone(W.depend_from_cluster) =>
                \A i \in DOMAIN remaining_wells :
                    remaining_wells[i].cluster # Get(W.depend_from_cluster)]_vars

\* C1 happens: a well is in the plan after a well of the cluster it depends on
C1_Witness ==
    \E i, j \in DOMAIN plan :
        /\ j < i
        /\ ~IsNone(plan[i].well.depend_from_cluster)
        /\ plan[j].well.cluster = Get(plan[i].well.depend_from_cluster)

\* C2: for every team the intervals [start, end) of its plan entries are pairwise
\* non-overlapping, tasks of one well included
C2_NoOverlap ==
    \A p, q \in PlanEntries :
        (p # q /\ EntryAt(p).team = EntryAt(q).team) =>
            (EntryAt(p).end <= EntryAt(q).start \/ EntryAt(q).end <= EntryAt(p).start)

\* C2 happens: one team has two tasks of one well and a task of another well
C2_Witness ==
    \E p, q, r \in PlanEntries :
        /\ EntryAt(p).team = EntryAt(q).team /\ EntryAt(q).team = EntryAt(r).team
        /\ p[1] = q[1] /\ p[2] < q[2]
        /\ r[1] # p[1]

\* q is the next plan entry of p's team after p
NextEntryOfTeam(p, q) ==
    /\ EntryAt(p).team = EntryAt(q).team
    /\ EntryAt(p).start < EntryAt(q).start
    /\ ~\E r \in PlanEntries :
            /\ EntryAt(r).team = EntryAt(p).team
            /\ EntryAt(p).start < EntryAt(r).start
            /\ EntryAt(r).start < EntryAt(q).start

\* C3: if e2 is a team's next plan entry after e1 then
\* e2.start >= e1.end + get_move_days(cluster of e1's well, cluster of e2's well),
\* on different wells and on two consecutive tasks of one well
C3_TravelGap ==
    \A p, q \in PlanEntries :
        NextEntryOfTeam(p, q) =>
            EntryAt(q).start >= EntryAt(p).end + get_move_days(ClusterAt(p), ClusterAt(q))

\* C4: for every (year, task) with a limit L, at most L distinct teams have a plan
\* entry of that task starting in that year
C4_QuotaConformance ==
    \A pair \in LimitPairs :
        Cardinality({EntryAt(p).team : p \in {q \in PlanEntries :
                        /\ EntryAt(q).task = pair[2]
                        /\ year(EntryAt(q).start) = pair[1]}})
            <= limits[pair[1]][pair[2]]

\* the capex of the planned wells launching in year y
C5_PlannedCapex(y) ==
    SumOver([i \in DOMAIN plan |-> DictGet(plan[i].metadata, "capex", 0)],
            {i \in DOMAIN plan : year(launch_date(plan[i])) = y})

\* the candidate pushes the capex of its launch year above the applicable bound
C5_Exceeds(constraint, candidate) ==
    /\ ~IsNone(get_applicable_bound(constraint, year(launch_date(candidate))))
    /\ C5_PlannedCapex(year(launch_date(candidate)))
            + DictGet(candidate.metadata, "capex", 0)
        > Get(get_applicable_bound(constraint, year(launch_date(candidate))))

\* C5: a CapexConstraint rejects a candidate exactly when the capex of the planned
\* wells launching in the candidate's launch year plus the candidate's capex is
\* above the applicable bound, and the capex of every year of the plan that has an
\* applicable bound is at most that bound
C5_CapexBound ==
    LET priced == PricedCandidates
        kept == Range(_drop_violating(plan, priced, 1))
        capex_per_year == get_capex_per_year(plan)
    IN  \A k \in DOMAIN constraints :
            constraints[k].kind = "capex" =>
                /\ \A c \in DOMAIN priced :
                    /\ capex_is_violated(constraints[k], plan, priced[c])
                            <=> C5_Exceeds(constraints[k], priced[c])
                    /\ Len(constraints) = 1 =>
                            (priced[c] \in kept <=> ~C5_Exceeds(constraints[k], priced[c]))
                /\ \A y \in DOMAIN capex_per_year :
                    ~IsNone(get_applicable_bound(constraints[k], y)) =>
                        capex_per_year[y] <= Get(get_applicable_bound(constraints[k], y))

\* C5 happens: with wells planned, one candidate is rejected for its capex and the
\* capex of a year of the plan is exactly at its bound
C5_Witness ==
    LET priced == PricedCandidates
        capex_per_year == get_capex_per_year(plan)
    IN  /\ plan # <<>>
        /\ \E k \in DOMAIN constraints :
            /\ constraints[k].kind = "capex"
            /\ \E c \in DOMAIN priced : capex_is_violated(constraints[k], plan, priced[c])
            /\ \E y \in DOMAIN capex_per_year :
                    /\ ~IsNone(get_applicable_bound(constraints[k], y))
                    /\ capex_per_year[y] = Get(get_applicable_bound(constraints[k], y))

\* C6: for every OilConstraint and every year that has an applicable bound, the
\* oil the plan attributes to that year is at most the bound, also after a risk
\* strategy changed the selected well's profile
C6_OilBound ==
    LET oil_per_year == get_oil_production_per_year(plan)
    IN  \A k \in DOMAIN constraints :
            constraints[k].kind = "oil" =>
                \A y \in DOMAIN oil_per_year :
                    ~IsNone(get_applicable_bound(constraints[k], y)) =>
                        oil_per_year[y] <= Get(get_applicable_bound(constraints[k], y))

\* C6 happens: under an OilConstraint the risk strategy has cut the profile of a
\* selected well, and a later well was selected into the same bounded year
C6_Witness ==
    /\ risk_strategy
    /\ \E k \in DOMAIN constraints : constraints[k].kind = "oil"
    /\ \E i, j \in DOMAIN plan :
        /\ i < j
        /\ "applied_risk" \in DOMAIN plan[i].metadata
        /\ year(launch_date(plan[i])) = year(launch_date(plan[j]))

\* C7 as stated: two runs with keep_order=True on the same inputs end with the
\* same sequence of selected wells
C7_KeepOrderDeterminism ==
    (keep_order /\ pc # "loop" /\ twin.pc # "loop") =>
        PlanWells(plan) = PlanWells(twin.plan)

\* C7, amended: with keep_order=True and no risk strategy, two runs on the same
\* inputs that are advanced together are in the same state after every step, with
\* the same sequence of selected wells
C7_KeepOrderDeterminismWithoutRisk ==
    (keep_order /\ ~risk_strategy) => (twin = Run /\ PlanWells(plan) = PlanWells(twin.plan))

\* C7 happens: both runs have returned plans of several wells, chosen by entry date
\* against the order of the input list
C7_Witness ==
    /\ keep_order /\ ~risk_strategy
    /\ pc = "done" /\ twin.pc = "done"
    /\ Len(plan) >= 2
    /\ PlanWells(plan) # [i \in DOMAIN plan |-> wells[i].name]

\* the horizon lets every well finish before the plan end whatever the teams do:
\* every task after the longest move
C8_LongHorizon ==
    start + SumOver([i \in DOMAIN wells |->
                        Len(wells[i].well_type) * (other_cluster_move_days + DRILLING_days)],
                    DOMAIN wells) <= end

C8_Precondition ==
    /\ keep_order
    /\ \A i \in DOMAIN wells : IsNone(wells[i].depend_from_cluster)
    /\ constraints = <<>>
    /\ limits = <<>>
    /\ \A i \in DOMAIN wells : ~IsNone(wells[i].init_entry_date)
    /\ C8_LongHorizon

\* C8: with keep_order=True, no cluster dependencies, no constraints, no quotas,
\* an init_entry_date on every well and a long enough horizon, the returned plan
\* holds every input well exactly once, in non-decreasing init_entry_date order
C8_KeepOrderComplete ==
    (pc \in {"done", "reported"} /\ C8_Precondition) =>
        /\ Len(plan) = Len(wells)
        /\ \A w \in DOMAIN wells :
                Cardinality({i \in DOMAIN plan : plan[i].well = wells[w]}) = 1
        /\ \A i, j \in DOMAIN plan :
                i < j => Get(plan[i].well.init_entry_date) <= Get(plan[j].well.init_entry_date)

\* C8 happens: a plan is returned for wells listed against their entry dates
C8_Witness ==
    /\ pc = "done" /\ C8_Precondition
    /\ Len(wells) >= 2
    /\ \E i, j \in DOMAIN wells :
            i < j /\ Get(wells[i].init_entry_date) > Get(wells[j].init_entry_date)

\* C9: total_profit() is the sum of the costs of exactly the well plans whose cost
\* is not None, and 0 for a plan without well plans
C9_TotalProfit ==
    ~IsNone(profit) =>
        /\ Get(profit) = SumOver([i \in DOMAIN plan |->
                                    IF IsNone(plan[i].cost) THEN 0 ELSE Get(plan[i].cost)],
                                 {i \in DOMAIN plan : ~IsNone(plan[i].cost)})
        /\ plan = <<>> => Get(profit) = 0

\* C9 happens: the profit was asked of a plan with a well of cost None, a well of
\* negative cost and a well of positive cost
C9_Witness ==
    /\ ~IsNone(profit)
    /\ \E i, j, k \in DOMAIN plan :
        /\ IsNone(plan[i].cost)
        /\ ~IsNone(plan[j].cost) /\ Get(plan[j].cost) < 0
        /\ ~IsNone(plan[k].cost) /\ Get(plan[k].cost) > 0

\* 1 January of the next year that carries a bound, or of the next year
C10_NextBoundary ==
    LET later == {y \in time_bounds : y > year(current_start)}
    IN  datetime(IF later # {} THEN MinOf(later) ELSE year(current_start) + 1, 1, 1)

\* C10 as stated: a round without candidates, whether nothing was built or all was
\* filtered out, moves current_start to 1 January of the next boundary year (or of
\* year + 1) and goes on, and the loop ends only with remaining_wells empty or
\* current_start >= end
C10_ZeroCandidatesRetry ==
    [][/\ (NothingBuilt \/ AllFilteredOut) =>
            (pc' = "loop" /\ current_start' = C10_NextBoundary)
       /\ (pc = "loop" /\ pc' = "done") =>
            (remaining_wells = <<>> \/ current_start >= end)]_vars

\* C10, amended: a round whose candidates are all filtered out moves current_start
\* to 1 January of the next boundary year (or of year + 1) and goes on; a round in
\* which no context can be built ends the loop; the loop ends only with
\* remaining_wells empty, current_start >= end, or such a round
C10_FilteredRoundsRetry ==
    [][/\ AllFilteredOut =>
            /\ pc' = "loop" /\ current_start' = C10_NextBoundary
            /\ UNCHANGED <<remaining_wells, plan>>
       /\ NothingBuilt => (pc' = "done" /\ UNCHANGED <<remaining_wells, plan, current_start>>)
       /\ (pc = "loop" /\ pc' = "done") =>
            (remaining_wells = <<>> \/ current_start >= end \/ NothingBuilt)]_vars

\* C10 happens: after a filtered-out round moved current_start, a round built no
\* context and compile returned with wells remaining before the plan end
C10_Witness ==
    /\ pc = "done" /\ last = "break"
    /\ remaining_wells # <<>>
    /\ start < current_start /\ current_start < end

\* the latest value current_start can take: 1 January after the year of the end
\* or of the last constraint boundary
C11_LastStart ==
    datetime(MaxOf(time_bounds \cup {year(end) + 1}), 1, 1)

\* C11: compile terminates: a run inside the loop always has a next step, every
\* iteration removes one well from remaining_wells, strictly increases
\* current_start (which stays below a fixed date) or leaves the loop, whatever
\* the dependencies, quotas and constraints
C11_Terminates ==
    /\ [](pc = "loop" => /\ compile_step(Run) # {}
                         /\ current_start <= C11_LastStart)
    /\ [][pc = "loop" =>
            \/ /\ Len(remaining_wells') = Len(remaining_wells) - 1
               /\ current_start' = current_start
            \/ /\ remaining_wells' = remaining_wells
               /\ current_start' > current_start
            \/ pc' # "loop"]_vars

\* compile has returned with wells left over that no round could place: the
\* constraints rejected every candidate until current_start passed the end
C11_Witness ==
    /\ pc = "done" /\ last = "exit"
    /\ remaining_wells # <<>>
    /\ current_start >= end /\ current_start > start

\* a well of the round about to run that reaches get_assignments (its dependency
\* cluster is finished) with a task no team of the pool supports
C12_UnsupportedEvaluated(w) ==
    /\ _is_cluster_finished(remaining_wells, w.depend_from_cluster)
    /\ ~well_tasks_raises(w)
    /\ \E i \in DOMAIN w.well_type : well_tasks(w)[i] \notin supported_tasks

\* C12: a round that evaluates a well with a task no team supports ends compile
\* with the error of get_assignments: no plan is returned, no well is dropped and
\* the plan and the team states stay as they were
C12_UnsupportedTaskRaises ==
    [][(RoundAhead /\ \E i \in DOMAIN remaining_wells :
                        C12_UnsupportedEvaluated(remaining_wells[i]))
        => /\ pc' = "error" /\ last' = "raise_build"
           /\ UNCHANGED <<states, usage_counts, plan, remaining_wells, profit>>]_vars

\* compile has raised for a well that needs a GTM team, in a later round: wells
\* were planned before and teams have moved
C12_Witness ==
    /\ pc = "error" /\ last = "raise_build"
    /\ plan # <<>>
    /\ \E t \in Teams : states[t] # TeamState0
    /\ \E i \in DOMAIN remaining_wells : C12_UnsupportedEvaluated(remaining_wells[i])
    /\ \E i \in DOMAIN plan : plan[i].well.cluster = "c1"

\* the earliest date by which the well's tasks can be done, whatever the teams
C13_EarliestFinish(w) ==
    Max2(start, get_ready_date(w))
        + SumSeq([i \in DOMAIN w.well_type |-> duration(well_tasks(w)[i])])

\* C13: every context of the plan has an entry and its launch date is no later
\* than the end of the plan; every input well is in the plan or still in
\* remaining_wells, and a well that cannot finish by the end is not in the plan
C13_PlanWithinHorizon ==
    /\ \A i \in DOMAIN plan :
        /\ plan[i].entries # <<>>
        /\ launch_date(plan[i]) <= end
    /\ \A k \in DOMAIN wells :
        /\ (\E i \in DOMAIN plan : plan[i].well = wells[k])
                # (\E i \in DOMAIN remaining_wells : remaining_wells[i] = wells[k])
        /\ (~well_tasks_raises(wells[k]) /\ C13_EarliestFinish(wells[k]) > end)
                => \E i \in DOMAIN remaining_wells : remaining_wells[i] = wells[k]

\* compile has returned a plan with a well launched exactly at the end, leaving
\* a well that could only finish a day after the end
C13_Witness ==
    /\ pc = "done"
    /\ \E i \in DOMAIN plan : launch_date(plan[i]) = end
    /\ \E i \in DOMAIN remaining_wells :
            C13_EarliestFinish(remaining_wells[i]) = end + 1

\* C14: no entry of a well of the plan starts before the well's ready date or
\* before the builder's start, and the entries of the well a round appends do
\* not start before the current_start of that round
C14_NotBeforeReady ==
    /\ [](\A p \in PlanEntries :
            EntryAt(p).start >= Max2(get_ready_date(plan[p[1]].well), start))
    /\ [][Len(plan') = Len(plan) + 1 =>
            \A a \in DOMAIN plan'[Len(plan')].entries :
                plan'[Len(plan')].entries[a].start
                    >= Max2(get_ready_date(plan'[Len(plan')].well), current_start)]_vars

\* the plan holds a well that started on its readiness date, after the start of
\* the builder, and a well that started on the date current_start was moved to
C14_Witness ==
    /\ \E i \in DOMAIN plan :
        /\ ~IsNone(plan[i].well.readiness_date)
        /\ plan[i].entries[1].start = Get(plan[i].well.readiness_date)
        /\ plan[i].entries[1].start > start
    /\ \E i \in DOMAIN plan :
        /\ IsNone(plan[i].well.readiness_date)
        /\ current_start > start
        /\ plan[i].entries[1].start = current_start

\* the step keeps the contexts of the plan, in their order, as a prefix
C15_PrefixKept ==
    /\ Len(plan') >= Len(plan)
    /\ \A i \in DOMAIN plan : plan'[i] = plan[i]

\* the step is an iteration of the loop that moves current_start (a backoff)
C15_BackoffStep == RoundAhead /\ pc' = "loop" /\ current_start' # current_start

\* C15 as stated: the plan only grows at its end, and every iteration that is
\* not a backoff (and does not raise) appends exactly one context
C15_AppendOnly ==
    [][/\ C15_PrefixKept
       /\ (RoundAhead /\ ~C15_BackoffStep /\ pc' # "error")
            => Len(plan') = Len(plan) + 1]_vars

\* C15, amended: the plan only grows at its end; an iteration either leaves the
\* plan and remaining_wells as they are (a backoff, a round that builds no
\* context and ends the loop, a round that raises) or appends exactly one
\* context, that of the well it removes from remaining_wells; an iteration
\* that neither moves current_start nor ends the loop appends one
C15_AppendOnlyPerSelection ==
    [][/\ C15_PrefixKept
       /\ \/ plan' = plan /\ remaining_wells' = remaining_wells
          \/ /\ Len(plan') = Len(plan) + 1
             /\ \E i \in DOMAIN remaining_wells :
                    remaining_wells[i] = plan'[Len(plan')].well
             /\ remaining_wells' = ListRemove(remaining_wells, plan'[Len(plan')].well)
       /\ (RoundAhead /\ pc' = "loop" /\ current_start' = current_start)
            => Len(plan') = Len(plan) + 1]_vars

\* a round that built no context ended the loop after wells were appended, with
\* wells left over
C15_Witness ==
    /\ pc = "done" /\ last = "break"
    /\ Len(plan) >= 1
    /\ remaining_wells # <<>>

\* C16: a planned well W with depend_from_cluster = C is drilled after cluster C
\* in time: every entry of W starts no earlier than the end of every entry of
\* every planned well of cluster C
C16_DrilledAfterCluster ==
    \A p \in PlanEntries : \A q \in PlanEntries :
        plan[p[1]].well.depend_from_cluster = Some(ClusterAt(q))
            => EntryAt(p).start >= EntryAt(q).end

\* C17: SimulatedAnnealingPlanner.optimize returns the best plan found. While
\* it runs, best_cost is the total_profit() of best_plan, it is at least the
\* total_profit() of the input plan and of the current plan (so of every plan
\* accepted so far), and no step lowers it; the plan returned is best_plan.
C17_InputOrder == [i \in DOMAIN sa.well_plans |-> i]

C17_BestPlanReturned ==
    /\ [](sa.kind = "optimize" /\ sa.pc # "start" =>
            /\ sa.best_score = _calculate_cost(sa.well_plans, sa.best)
            /\ sa.current_score = _calculate_cost(sa.well_plans, sa.current)
            /\ sa.best_score >= _calculate_cost(sa.well_plans, C17_InputOrder)
            /\ sa.best_score >= sa.current_score
            /\ (sa.pc = "returned" =>
                    /\ sa.result = Some(sa.best)
                    /\ _calculate_cost(sa.well_plans, Get(sa.result))
                            >= _calculate_cost(sa.well_plans, C17_InputOrder)
                    /\ _calculate_cost(sa.well_plans, Get(sa.result))
                            >= sa.current_score))
    /\ [][sa.kind = "optimize" /\ sa.pc = "loop" =>
            /\ sa'.best_score >= sa.best_score
            /\ (sa'.current # sa.current =>
                    sa'.best_score >= _calculate_cost(sa.well_plans, sa'.current))]_vars

\* optimize has returned a plan of a higher total_profit() than its input,
\* after it had accepted a plan of a lower one than the best
C17_Witness ==
    /\ sa.kind = "optimize" /\ sa.pc = "returned"
    /\ Get(sa.result) # C17_InputOrder
    /\ _calculate_cost(sa.well_plans, Get(sa.result))
            > _calculate_cost(sa.well_plans, C17_InputOrder)
    /\ sa.current_score < sa.best_score
    /\ sa.current # sa.best

\* C18: in the builder's simulated-annealing selection among more than three
\* costed candidates, no step lowers best_score, best_score is at least the
\* score of the candidate sampled first, best_score is a score recorded for
\* best_candidate (both are set together, from the candidate just accepted),
\* and the candidate returned is best_candidate.
C18_Annealed ==
    /\ sa.kind = "select" /\ sa.pc # "start"
    /\ Cardinality(valid_candidates(sa.candidates)) > 3

C18_BestScoreTracked ==
    /\ [](C18_Annealed =>
            /\ sa.best_score >= sa.first_score
            /\ sa.best_score >= sa.current_score
            /\ sa.best \in valid_candidates(sa.candidates)
            /\ sa.best_score \in _calculate_candidate_score(sa.candidates[sa.best])
            /\ (sa.pc = "returned" =>
                    /\ sa.result = Some(sa.best)
                    /\ Get(sa.result) \in _simulated_annealing_selection(sa.candidates)))
    /\ [][C18_Annealed /\ sa.pc = "loop" =>
            /\ sa'.best_score >= sa.best_score
            /\ sa'.first_score = sa.first_score
            /\ (sa'.best_score # sa.best_score \/ sa'.best # sa.best =>
                    /\ sa'.best = sa'.current
                    /\ sa'.best_score = sa'.current_score
                    /\ sa'.best_score > sa.best_score)]_vars

\* the selection has returned a candidate of a higher recorded score than the
\* first sample's, after it had accepted another one of a lower score
C18_Witness ==
    /\ C18_Annealed /\ sa.pc = "returned"
    /\ sa.best_score > sa.first_score
    /\ sa.current # Get(sa.result)
    /\ sa.current_score < sa.best_score
    /\ \E c \in valid_candidates(sa.candidates) : IsNone(sa.candidates[c].days_from_start)
            /\ c # Get(sa.result)
            /\ Get(sa.candidates[c].cost) - sa.candidates[c].drill_team_penalty
                    > Get(sa.candidates[Get(sa.result)].cost)

\* C19: both cooling loops end, and the number of evaluations of the loop body
\* is fixed by the schedule alone: a run never exceeds, and a run that returns
\* has made exactly, iterations times the number of coolings that take
\* initial_temp to min_temp or below, whatever the candidates or plans, the
\* scores and the random draws; with the default schedules that is 135 times
\* 10 in the builder's selection and 135 times 100 in the plan optimizer.
C19_Cooled(temp, rate) == (temp * rate) \div 100

C19_Cooled4(temp, rate) ==
    C19_Cooled(C19_Cooled(C19_Cooled(C19_Cooled(temp, rate), rate), rate), rate)

C19_Cooled16(temp, rate) ==
    C19_Cooled4(C19_Cooled4(C19_Cooled4(C19_Cooled4(temp, rate), rate), rate), rate)

\* the coolings that take temp to tmin or below, counted by sixteen where
\* sixteen coolings leave the temperature above tmin
RECURSIVE C19_Coolings(_, _, _)
C19_Coolings(temp, rate, tmin) ==
    IF temp <= tmin THEN 0
    ELSE IF C19_Cooled16(temp, rate) > tmin
    THEN 16 + C19_Coolings(C19_Cooled16(temp, rate), rate, tmin)
    ELSE 1 + C19_Coolings(C19_Cooled(temp, rate), rate, tmin)

C19_Iterations(schedule) ==
    schedule.iterations * C19_Coolings(schedule.initial_temp * TempUnit,
                                       schedule.cooling_rate,
                                       schedule.min_temp * TempUnit)

C19_Looped ==
    \/ sa.kind = "optimize"
    \/ sa.kind = "select" /\ Cardinality(valid_candidates(sa.candidates)) > 3

C19_WitnessSelection ==
    /\ sa.kind = "select" /\ sa.pc = "returned"
    /\ sa.schedule = SelectionSchedule
    /\ sa.steps = 135 * 10
    /\ sa.best # sa.current

\* C20: once assign has committed an entry of task t that starts in year y and
\* is performed by team T, T is in the used-team set of every configured year
\* y' >= y that has a limit for t, whatever the capacity that year has left.
C20_LaterYears(entry) ==
    {p \in LimitPairs : p[2] = entry.task /\ p[1] >= year(entry.start)}

C20_UsageCarriedForward ==
    \A i \in DOMAIN plan : \A k \in DOMAIN plan[i].entries :
        \A p \in C20_LaterYears(plan[i].entries[k]) :
            plan[i].entries[k].team \in usage_counts[p]

\* C20 (amended): T is in the used-team set of every such year unless that
\* set holds as many teams as the year's limit without T; no set holds more
\* teams than its limit.
C20_UsageCarriedWhileCapacity ==
    /\ \A i \in DOMAIN plan : \A k \in DOMAIN plan[i].entries :
        \A p \in C20_LaterYears(plan[i].entries[k]) :
            \/ plan[i].entries[k].team \in usage_counts[p]
            \/ Cardinality(usage_counts[p]) >= limits[p[1]][p[2]]
    /\ \A p \in LimitPairs : Cardinality(usage_counts[p]) <= limits[p[1]][p[2]]

\* one team's usage was carried forward into a later year, which then had no
\* capacity left for the usage of a second team that drilled in the earlier year
C20_Witness ==
    \E i, j \in DOMAIN plan : \E p \in C20_LaterYears(plan[i].entries[1]) :
        /\ p \in C20_LaterYears(plan[j].entries[1])
        /\ p[1] > year(plan[i].entries[1].start)
        /\ p[1] > year(plan[j].entries[1].start)
        /\ plan[i].entries[1].team \in usage_counts[p]
        /\ plan[j].entries[1].team \notin usage_counts[p]

\* C21: for each task of the well get_assignments appends the window of least
\* end among the earliest feasible windows of the teams capable of the task,
\* each window as long as the task; of several teams with that end the first
\* in pool order is taken, whatever their travel times.
C21_Before(context, k) ==
    [WellPlanContext(context.well, context.start, context.end)
        EXCEPT !.entries = SubSeq(context.entries, 1, k - 1)]

C21_WindowEnd(before, task, team) ==
    _find_available_start_time(states, usage_counts, task, team,
                               _get_travel_time(states[team], before.well), before)
        + duration(task)

C21_LeastEnd(context, k, entry) ==
    /\ entry.task \in team_pool[entry.team]
    /\ entry.end - entry.start = duration(entry.task)
    /\ entry.end = C21_WindowEnd(C21_Before(context, k), entry.task, entry.team)
    /\ entry.travel_time = _get_travel_time(states[entry.team], context.well)
    /\ \A t \in Teams : entry.task \in team_pool[t] =>
        /\ entry.end <= C21_WindowEnd(C21_Before(context, k), entry.task, t)
        /\ (entry.end = C21_WindowEnd(C21_Before(context, k), entry.task, t)
                => entry.team <= t)

C21_Appended(context) ==
    \A k \in DOMAIN context.entries : C21_LeastEnd(context, k, context.entries[k])

C21_EarliestEndFirstTeam ==
    [][Len(plan') = Len(plan) + 1 => C21_Appended(plan'[Len(plan')])]_vars

\* the plan holds an entry of the first team, taken on equal ends, and an entry
\* of a later team that travelled longer than the first team would have
C21_Witness ==
    \E i, j \in DOMAIN plan : \E k \in DOMAIN plan[j].entries :
        /\ i < j
        /\ plan[i].entries[1].team = 1
        /\ plan[i].entries[1].start = plan[j].entries[k].start
        /\ plan[j].entries[k].team > 1
        /\ plan[j].entries[k].task = plan[i].entries[1].task
        /\ plan[j].entries[k].travel_time = other_cluster_move_days
        /\ plan[i].well.cluster = plan[j].well.cluster

\* C22: for every usage state of the limits table, limits of 0 included,
\* _find_available_start_time returns a start that is not before the team's
\* available_from plus the travel time nor before the context's next available
\* date, and whose year has no limit for the task or admits the team; the start
\* is that base date, or 1 January of a year up to the one after the last year
\* of the table, every year from the base date's to the one before being closed
\* to the team.
C22_UsageStates == [LimitPairs -> SUBSET Teams]

C22_Admits(usage, task, yr, team) ==
    \/ <<yr, task>> \notin LimitPairs
    \/ team \in usage[<<yr, task>>]
    \/ Cardinality(usage[<<yr, task>>]) < limits[yr][task]

C22_Base(team, context) ==
    Max2(states[team].available_from
            + get_move_days(states[team].current_cluster, context.well.cluster),
         get_next_available_date(context))

C22_StartOf(usage, task, team, context, base, found) ==
    /\ found >= base
    /\ C22_Admits(usage, task, year(found), team)
    /\ \A yr \in year(base) .. year(found) - 1 : ~C22_Admits(usage, task, yr, team)
    /\ found # base =>
        /\ found = datetime(year(found), 1, 1)
        /\ DOMAIN limits # {}
        /\ year(found) <= MaxOf(DOMAIN limits) + 1

C22_Contexts ==
    {WellPlanContext(wells[i], t, end) :
        i \in DOMAIN wells, t \in {start, current_start, end}}

C22_StartFound ==
    \A usage \in C22_UsageStates \cup {usage_counts} :
    \A team \in Teams : \A task \in team_pool[team] : \A context \in C22_Contexts :
        C22_StartOf(usage, task, team, context, C22_Base(team, context),
            _find_available_start_time(states, usage, task, team,
                _get_travel_time(states[team], context.well), context))

\* an entry starts on 1 January of the second year because the limit of the
\* first year is 0, and both teams are then counted in a year of limit 1
C22_Witness ==
    /\ <<BaseYear, "DRILLING">> \in LimitPairs
    /\ limits[BaseYear]["DRILLING"] = 0
    /\ \E i \in DOMAIN plan :
        /\ plan[i].entries[1].task = "DRILLING"
        /\ plan[i].entries[1].start = datetime(BaseYear + 1, 1, 1)
    /\ \E team \in Teams : \E context \in C22_Contexts :
        _find_available_start_time(states, usage_counts, "DRILLING", team,
                _get_travel_time(states[team], context.well), context)
            = datetime(BaseYear + 2, 1, 1)

\* C23: building and filtering the candidates of a round changes no team state
\* and no used-team set: a round that selects no candidate (it breaks, backs
\* off or raises) leaves team states, used-team sets and plan as they were, and
\* a round that selects one changes the states of the teams named in its
\* entries only, adds only those teams to used-team sets of their tasks, and
\* keeps the contexts already in the plan.
C23_EntryTeams(context) == {context.entries[k].team : k \in DOMAIN context.entries}

C23_OnlySelectedChange(context) ==
    /\ \A t \in Teams \ C23_EntryTeams(context) : states'[t] = states[t]
    /\ \A p \in LimitPairs :
        /\ usage_counts[p] \subseteq usage_counts'[p]
        /\ \A t \in usage_counts'[p] \ usage_counts[p] :
            \E k \in DOMAIN context.entries :
                /\ context.entries[k].team = t
                /\ context.entries[k].task = p[2]
                /\ year(context.entries[k].start) <= p[1]
    /\ SubSeq(plan', 1, Len(plan)) = plan

C23_RoundFrame ==
    [][pc = "loop" =>
        IF Len(plan') = Len(plan) + 1
        THEN C23_OnlySelectedChange(plan'[Len(plan')])
        ELSE UNCHANGED <<states, usage_counts, plan>>]_vars

\* a candidate was selected in a round with a second candidate, drilled by
\* another team, and that team is as it was constructed
C23_Witness ==
    /\ last = "select" /\ Len(plan) = 1
    /\ remaining_wells # <<>>
    /\ \E t \in Teams \ C23_EntryTeams(plan[1]) :
        /\ states[t] = TeamState0
        /\ "DRILLING" \in team_pool[t]
        /\ \E i \in DOMAIN remaining_wells :
            _build_context(Run, remaining_wells[i]).kind = "ok"
    /\ \E p \in LimitPairs : usage_counts[p] = C23_EntryTeams(plan[1])

\* C24: assign(context) leaves every team named in context.entries available
\* from the end of its last entry in context.entries and on the cluster of the
\* well, and every other team as it was; in the builder no step lowers a
\* team's available_from.
C24_LastEntryOf(context, team) ==
    context.entries[MaxOf({k \in DOMAIN context.entries : context.entries[k].team = team})]

C24_Assigned(context) ==
    /\ \A t \in C23_EntryTeams(context) :
        /\ states'[t].available_from = C24_LastEntryOf(context, t).end
        /\ states'[t].current_cluster = context.well.cluster
    /\ \A t \in Teams \ C23_EntryTeams(context) : states'[t] = states[t]

C24_AssignSetsTeamStates ==
    [][/\ Len(plan') = Len(plan) + 1 => C24_Assigned(plan'[Len(plan')])
       /\ \A t \in Teams : states'[t].available_from >= states[t].available_from]_vars

\* a team has drilled a well and then worked it over: it is available from
\* the end of the second entry; another team is where it was
C24_Witness ==
    /\ last = "select"
    /\ Len(plan[Len(plan)].entries) = 2
    /\ plan[Len(plan)].entries[1].team = plan[Len(plan)].entries[2].team
    /\ plan[Len(plan)].entries[1].end < plan[Len(plan)].entries[2].end
    /\ states[plan[Len(plan)].entries[1].team].available_from
            = plan[Len(plan)].entries[2].end
    /\ \E t \in Teams : t \notin C23_EntryTeams(plan[Len(plan)])

\* C25: assign is idempotent: committing a context a second time leaves every
\* team state and every used-team set as the first time left them; and a team
\* counted for a (year, task) pair is admitted for that task in that year
\* whatever the count, and recording it again does not change the set.
C25_AssignedTwice(once, context) ==
    assign(once.states, once.usage_counts, context) = once

C25_Idempotent(usage, contexts) ==
    \A i \in DOMAIN contexts :
        C25_AssignedTwice(assign(states, usage, contexts[i]), contexts[i])

C25_CountedAdmitted(usage) ==
    \A p \in LimitPairs : \A team \in usage[p] :
        /\ _check_limit(usage, p[2], p[1], team)
        /\ _record_usage(usage, p[2], p[1], team)[p] = usage[p]
        /\ \A context \in C22_Contexts :
            year(C22_Base(team, context)) = p[1] =>
                _find_available_start_time(states, usage, p[2], team,
                        _get_travel_time(states[team], context.well), context)
                    = C22_Base(team, context)

C25_UsageIdempotent ==
    /\ \A usage \in C22_UsageStates \cup {usage_counts} : C25_CountedAdmitted(usage)
    /\ pc = "loop" =>
        \A usage \in C22_UsageStates \cup {usage_counts} :
            C25_Idempotent(usage, _build_contexts(Run).contexts)
    /\ \A i \in DOMAIN plan :
        C25_AssignedTwice([states |-> states, usage_counts |-> usage_counts], plan[i])
            \/ i < Len(plan)

\* a candidate of the round has an entry of a team that is already counted in
\* the full used-team set of the entry's year and task
C25_Witness ==
    /\ pc = "loop" /\ plan # <<>>
    /\ \E context \in Range(_build_contexts(Run).contexts) :
        \E p \in LimitPairs :
            /\ p[2] = context.entries[1].task
            /\ p[1] = year(context.entries[1].start)
            /\ context.entries[1].team \in usage_counts[p]
            /\ Cardinality(usage_counts[p]) = limits[p[1]][p[2]]
            /\ Cardinality(Teams) > limits[p[1]][p[2]]

\* C26: with cluster_ordered the cluster-ordering step keeps, for each cluster
\* that has a candidate, exactly one candidate: the first in the list among
\* those of the cluster with the earliest init_entry_date, a missing date being
\* earlier than any date; without cluster_ordered it keeps the list as it is.
C26_Date(candidate) ==
    IF IsNone(candidate.well.init_entry_date) THEN datetime_min
    ELSE Get(candidate.well.init_entry_date)

C26_OfCluster(candidates, cluster) ==
    {i \in DOMAIN candidates : candidates[i].well.cluster = cluster}

C26_Earliest(candidates, cluster) ==
    MinOf({i \in C26_OfCluster(candidates, cluster) :
            \A j \in C26_OfCluster(candidates, cluster) :
                C26_Date(candidates[i]) <= C26_Date(candidates[j])})

C26_Kept(candidates, kept) ==
    IF cluster_ordered
    THEN /\ \A k \in DOMAIN kept :
            /\ kept[k] = candidates[C26_Earliest(candidates, kept[k].well.cluster)]
            /\ \A l \in DOMAIN kept : kept[l].well.cluster = kept[k].well.cluster => l = k
         /\ \A i \in DOMAIN candidates :
            \E k \in DOMAIN kept : kept[k].well.cluster = candidates[i].well.cluster
    ELSE kept = candidates

C26_Candidates == IF pc = "loop" THEN _build_contexts(Run).contexts ELSE <<>>

C26_EarliestPerCluster == C26_Kept(C26_Candidates, _cluster_ordering(C26_Candidates))

\* the round has three candidates of one cluster: the second has an earlier
\* date than the first and replaces it, the third has the date of the second
C26_Witness ==
    /\ cluster_ordered /\ pc = "loop"
    /\ \E i, j, l \in DOMAIN C26_Candidates :
        /\ i < j /\ j < l
        /\ C26_Candidates[i].well.cluster = C26_Candidates[j].well.cluster
        /\ C26_Candidates[l].well.cluster = C26_Candidates[j].well.cluster
        /\ C26_Date(C26_Candidates[j]) < C26_Date(C26_Candidates[i])
        /\ C26_Date(C26_Candidates[l]) = C26_Date(C26_Candidates[j])
        /\ _cluster_ordering(C26_Candidates) = <<C26_Candidates[j]>>

\* C27: a round whose candidates are all filtered out sets current_start to
\* 1 January of the least year, above the year of current_start, that some
\* bound of some constraint names, or of the year after current_start's when
\* no bound names a later year; current_start becomes strictly later.
C27_BoundYears ==
    {yr \in year(start) - 1 .. year(end) + HorizonYears + 1 :
        \E k \in DOMAIN constraints : \E i \in DOMAIN constraints[k].bounds :
            constraints[k].bounds[i].year = Some(yr)}

C27_MovedTo(yr) ==
    /\ current_start' = datetime(yr, 1, 1)
    /\ yr > year(current_start)
    /\ IF \E b \in C27_BoundYears : b > year(current_start)
       THEN /\ yr \in C27_BoundYears
            /\ \A b \in C27_BoundYears : b > year(current_start) => yr <= b
       ELSE yr = year(current_start) + 1

C27_NextBoundaryYear ==
    [][AllFilteredOut =>
        /\ C27_MovedTo(year(current_start'))
        /\ current_start' > current_start]_vars

\* wells were launched in the first year, then the start was moved over the
\* second year to the only boundary year
C27_Witness ==
    /\ last = "backoff"
    /\ C27_BoundYears = {BaseYear + 2}
    /\ current_start = datetime(BaseYear + 2, 1, 1)
    /\ plan # <<>>
    /\ \A i \in DOMAIN plan : year(launch_date(plan[i])) = BaseYear

----------------------------------------------------------------------------
\* the candidates the iteration from the current state selects among
C28_Candidates == _filter_candidates(Run, _build_contexts(Run).contexts)

\* cost - drill_team_penalty, or cost alone when use_drill_team_penalty is False
C28_Value(candidate) ==
    IF use_drill_team_penalty
    THEN Get(candidate.cost) - DictGet(candidate.metadata, "drill_team_penalty", 0)
    ELSE Get(candidate.cost)

\* the well is that of a candidate with a cost whose value no costed candidate exceeds
C28_Maximal(well) ==
    \E i \in DOMAIN C28_Candidates :
        /\ C28_Candidates[i].well = well
        /\ ~IsNone(C28_Candidates[i].cost)
        /\ \A j \in DOMAIN C28_Candidates :
            ~IsNone(C28_Candidates[j].cost)
                => C28_Value(C28_Candidates[i]) >= C28_Value(C28_Candidates[j])

----------------------------------------------------------------------------
\* the years get_applicable_bound is asked about: those of the horizon and the next
C29_Years == BaseYear..(BaseYear + HorizonYears + 1)

\* the values of the bounds whose year is yr and of the bounds with no year
C29_Values(constraint, yr) ==
    {constraint.bounds[i].value : i \in
        {k \in DOMAIN constraint.bounds :
            constraint.bounds[k].year = None \/ constraint.bounds[k].year = Some(yr)}}

\* C29: Constraint.get_applicable_bound(year) returns the bound of the smallest
\* value among the bounds whose year is the given year and the bounds with no
\* year, and None exactly when the constraint has no bound of either kind
C29_ApplicableBound ==
    \A i \in DOMAIN constraints : \A yr \in C29_Years :
        /\ IsNone(get_applicable_bound(constraints[i], yr))
                <=> C29_Values(constraints[i], yr) = {}
        /\ ~IsNone(get_applicable_bound(constraints[i], yr)) =>
            /\ Get(get_applicable_bound(constraints[i], yr)) \in C29_Values(constraints[i], yr)
            /\ \A v \in C29_Values(constraints[i], yr) :
                    Get(get_applicable_bound(constraints[i], yr)) <= v

\* a well launched in a year for which the constraint has two bounds of that year
\* and a general bound has been selected under the least of the three
C29_Witness ==
    /\ last = "select"
    /\ \E i \in DOMAIN constraints :
        /\ Cardinality(_specific_bounds(constraints[i].bounds,
                            year(launch_date(plan[Len(plan)])))) = 2
        /\ _general_bounds(constraints[i].bounds) # {}
        /\ get_applicable_bound(constraints[i], year(launch_date(plan[Len(plan)])))
                = Some(15)

----------------------------------------------------------------------------
\* the entries are those of the tasks, one for one and in the order of the tasks
C30_OnePerTask(entries, tasks) ==
    /\ Len(entries) = Len(tasks)
    /\ \A k \in DOMAIN entries : entries[k].task = tasks[k]

\* every entry lasts its task's duration and starts no earlier than the entry
\* before it ends
C30_InSequence(entries) ==
    \A k \in DOMAIN entries :
        /\ entries[k].end - entries[k].start = duration(entries[k].task)
        /\ k > 1 => entries[k].start >= entries[k - 1].end

\* C30: every accepted well has exactly one ScheduleEntry per task of its
\* well_type, in task order, each with end - start = task.duration, and each entry
\* starts no earlier than the end of the previous entry of the same well
C30_EntriesFollowTasks ==
    \A i \in DOMAIN plan :
        /\ C30_OnePerTask(plan[i].entries, well_tasks(plan[i].well))
        /\ C30_InSequence(plan[i].entries)

\* a well of two tasks has been accepted, drilled by one team and then treated by
\* another that could have come earlier
C30_Witness ==
    \E i \in DOMAIN plan :
        /\ well_tasks(plan[i].well) = <<"DRILLING", "GTM">>
        /\ plan[i].entries[1].team # plan[i].entries[2].team
        /\ plan[i].entries[2].start = plan[i].entries[1].end
        /\ plan[i].entries[2].start
                > start + plan[i].entries[2].travel_time

----------------------------------------------------------------------------
\* the number of elements of the list that equal the well
C31_Count(list, well) == Cardinality({i \in DOMAIN list : list[i] = well})

\* the wells of the contexts in the plan, in plan order
C31_Planned == [i \in DOMAIN plan |-> plan[i].well]

\* C31: at every point of the compile loop the wells in the plan together with
\* remaining_wells are exactly the input wells as a multiset (no well is scheduled
\* twice or lost, and the two lengths add up to len(wells)), also when the input
\* holds equal well records
C31_WellsConserved ==
    /\ Len(plan) + Len(remaining_wells) = Len(wells)
    /\ \A i \in DOMAIN plan : \E j \in DOMAIN wells : wells[j] = plan[i].well
    /\ \A i \in DOMAIN remaining_wells : \E j \in DOMAIN wells : wells[j] = remaining_wells[i]
    /\ \A j \in DOMAIN wells :
        C31_Count(C31_Planned, wells[j]) + C31_Count(remaining_wells, wells[j])
            = C31_Count(wells, wells[j])

\* one of two equal well records has been selected and the other is still waiting
C31_Witness ==
    /\ last = "select"
    /\ \E i \in DOMAIN plan : \E j \in DOMAIN remaining_wells :
            plan[i].well = remaining_wells[j]

----------------------------------------------------------------------------
\* C32: for every configured (year, task) with limit L >= 0 the recorded used-team
\* set of the pair never has more than L members, whatever assign calls were made
C32_UsageWithinLimit ==
    \A p \in LimitPairs :
        limits[p[1]][p[2]] >= 0 => Cardinality(usage_counts[p]) <= limits[p[1]][p[2]]

\* a limited pair is full, and assign has committed an entry of its task, starting
\* no later than its year, for a team that is not in its set
C32_Witness ==
    \E p \in LimitPairs :
        /\ Cardinality(usage_counts[p]) = limits[p[1]][p[2]]
        /\ \E i \in DOMAIN plan : \E k \in DOMAIN plan[i].entries :
            /\ plan[i].entries[k].task = p[2]
            /\ year(plan[i].entries[k].start) <= p[1]
            /\ plan[i].entries[k].team \notin usage_counts[p]

----------------------------------------------------------------------------
\* C33 as stated: with cluster_ordered=True the wells of one cluster stand in the
\* plan in non-decreasing init_entry_date order (a missing date counting as the
\* earliest, as in the filter), whatever the dependencies, constraints and quotas
C33_ClusterEntryOrder ==
    cluster_ordered =>
        \A i, j \in DOMAIN plan :
            (i < j /\ plan[i].well.cluster = plan[j].well.cluster)
                => _entry_date_or_min(plan[i]) <= _entry_date_or_min(plan[j])

\* the contexts the iteration from the current state builds
C33_Built == _build_contexts(Run).contexts

\* C33 as the code has it: with cluster_ordered=True the well an iteration selects
\* has the earliest init_entry_date (a missing date counting as the earliest) among
\* the wells of its cluster for which that iteration built a context
C33_EarliestOfBuilt ==
    [][(cluster_ordered /\ Len(plan') = Len(plan) + 1) =>
            \A k \in DOMAIN C33_Built :
                C33_Built[k].well.cluster = plan'[Len(plan')].well.cluster
                    => _entry_date_or_min(plan'[Len(plan')])
                            <= _entry_date_or_min(C33_Built[k])]_vars

\* a well has been selected before a well of its cluster that has a later entry
\* date and no dependency to wait for
C33_Witness ==
    /\ cluster_ordered /\ last = "select"
    /\ \E j \in DOMAIN remaining_wells :
        /\ remaining_wells[j].cluster = plan[Len(plan)].well.cluster
        /\ IsNone(remaining_wells[j].depend_from_cluster)
        /\ ~IsNone(remaining_wells[j].init_entry_date)
        /\ _entry_date_or_min(plan[Len(plan)]) < Get(remaining_wells[j].init_entry_date)

----------------------------------------------------------------------------
\* the candidates _select_best_candidate is handed in the round about to run
C34_Candidates ==
    LET built == _build_contexts(Run)
    IN  IF RoundAhead /\ ~built.raised THEN _filter_candidates(Run, built.contexts)
        ELSE <<>>

\* C34 as stated: with keep_order=True _select_best_candidate returns a candidate
\* without raising for every non-empty candidate list, a well without
\* init_entry_date counting as the earliest, as in the cluster-ordering filter
C34_KeepOrderSelects ==
    [][(keep_order /\ C34_Candidates # <<>>) =>
            /\ pc' # "error"
            /\ Len(plan') = Len(plan) + 1
            /\ \A k \in DOMAIN C34_Candidates :
                    _entry_date_or_min(plan'[Len(plan')])
                        <= _entry_date_or_min(C34_Candidates[k])]_vars

----------------------------------------------------------------------------
\* every entry of the well plan moved by d days, its length kept
C35_Shifted(context, d) ==
    [context EXCEPT !.entries =
        [k \in DOMAIN context.entries |->
            [context.entries[k] EXCEPT !.start = @ + d, !.end = @ + d]]]

\* C35 as stated: the shift_well mutation of a plan that has a well completes
\* without raising and gives a neighbor in which every entry of one chosen well has
\* start and end moved by the same d with -30 <= d <= 30 days, the entries of the
\* other wells and the plan that was copied being unchanged
C35_ShiftWellShifts ==
    [][(plan # <<>> /\ sa = <<>> /\ sa' # <<>> /\ sa'.mutation = "shift_well") =>
            /\ sa'.pc = "returned"
            /\ plan' = plan
            /\ \E idx \in DOMAIN plan : \E d \in (-max_days_shift)..max_days_shift :
                    sa'.well_plans = [plan EXCEPT ![idx] = C35_Shifted(plan[idx], d)]]_vars

----------------------------------------------------------------------------
\* the entries a team has in the well plans, each by the places of its well plan
\* and of the entry in it
C36_EntriesOf(well_plans, team) ==
    {p \in UNION {{<<i, k>> : k \in DOMAIN well_plans[i].entries} : i \in DOMAIN well_plans} :
        well_plans[p[1]].entries[p[2]].team = team}

\* the team stands where its latest entry in the well plans leaves it
C36_Consistent(well_plans, st, team) ==
    \A p \in C36_EntriesOf(well_plans, team) :
        (\A q \in C36_EntriesOf(well_plans, team) :
            well_plans[q[1]].entries[q[2]].end <= well_plans[p[1]].entries[p[2]].end)
        => /\ st[team].available_from = well_plans[p[1]].entries[p[2]].end
           /\ st[team].current_cluster = well_plans[p[1]].well.cluster

\* C36 as stated: after the re-assignment pass that ends a neighbor construction
\* every team with entries in the neighbor plan has available_from equal to the
\* latest end among its entries and current_cluster equal to the cluster of the
\* well of that entry, whatever the order of the wells in the plan list
C36_StatesFollowNeighbor ==
    (sa # <<>> /\ sa.pc = "returned") =>
        \A team \in Teams : C36_Consistent(sa.well_plans, states, team)

----------------------------------------------------------------------------
\* the well plans in the order of the input plan
C37_InputPlan == [i \in DOMAIN sa.well_plans |-> i]

\* C37 as stated: no mutation changes a well's cost, so every neighbor has the
\* total_profit of the current plan, best_plan is never replaced, and optimize
\* returns the well plans of its input in the input's order
C37_PlanUnchanged ==
    (sa.kind = "optimize" /\ sa.pc # "start") =>
        /\ sa.current_score = sa.first_score
        /\ sa.best = C37_InputPlan
        /\ (sa.pc = "returned" => sa.result = Some(C37_InputPlan))

\* the plan lists every well plan of the input once, in some order
C37_Reordering(order) ==
    /\ Len(order) = Len(sa.well_plans)
    /\ \A i \in DOMAIN sa.well_plans : Cardinality({k \in DOMAIN order : order[k] = i}) = 1

\* C37 as the code has it: the current plan, the best plan and the plan returned
\* list the well plans of the input, costs and entries as they were, each once and
\* in some order; best_plan is replaced only by a plan whose total_profit(), the
\* float sum of the costs in list order, is greater than that of the best so far;
\* the input plan is not modified
C37_ReorderedOnly ==
    /\ []((sa.kind = "optimize" /\ sa.pc # "start") =>
            /\ C37_Reordering(sa.current)
            /\ C37_Reordering(sa.best)
            /\ (sa.pc = "returned" => C37_Reordering(Get(sa.result))))
    /\ [][sa.kind = "optimize" =>
            /\ sa'.well_plans = sa.well_plans
            /\ (sa.pc = "loop" /\ sa'.best # sa.best) =>
                    _calculate_cost(sa.well_plans, sa'.best)
                        > _calculate_cost(sa.well_plans, sa.best)]_vars

\* optimize has returned the well plans of its input in another order
C37_Witness ==
    /\ sa.kind = "optimize" /\ sa.pc = "returned"
    /\ Get(sa.result) # C37_InputPlan
    /\ C37_Reordering(Get(sa.result))
    /\ Len(sa.well_plans) >= 3

----------------------------------------------------------------------------
\* the profile the production profiler gives the context, before any risk
C38_Unrisked(context) == profiler_compute(context).oil_prod_profile

\* C38 as stated: with a risk strategy the oil profile of each accepted well is its
\* unrisked profile scaled once by (1 - r), r the value of metadata['applied_risk']
\* (no reduction without it): the reduction of the cluster is not applied twice
C38_RiskAppliedOnce ==
    risk_strategy =>
        \A i \in DOMAIN plan :
            plan[i].oil_prod_profile =
                [m \in DOMAIN C38_Unrisked(plan[i]) |->
                    (C38_Unrisked(plan[i])[m]
                        * (100 - DictGet(plan[i].metadata, "applied_risk", 0))) \div 100]

----------------------------------------------------------------------------
\* the calendar months from the month of launch through the month of the end
C39_Months(first, last_instant) ==
    (day_of(last_instant) \div DaysPerMonth) - (day_of(first) \div DaysPerMonth) + 1

\* C39: LinearProductionProfile.compute leaves exactly one monthly value for each
\* calendar month from the month of the launch (next-available) date through the
\* month of context.end, whatever the time of day of the launch, so that index i
\* of the profile is the i-th month counted from the launch month
C39_OneValuePerMonth ==
    (sa # <<>> /\ sa.kind = "profile" /\ sa.pc = "returned")
        => Len(sa.oil_prod_profile) = C39_Months(sa.launch, sa.end)

----------------------------------------------------------------------------
\* C40: Task.from_code raises ValueError for every code that, case-insensitively,
\* is neither the name of a task nor exactly one of a task's aliases, so reading
\* Well.tasks raises for a well type with an empty segment or with a segment that
\* is only a part of an alias
C40_InvalidCodeRaises ==
    (sa # <<>> /\ sa.kind = "tasks" /\ sa.pc # "start")
        => ((\E i \in DOMAIN sa.well.well_type :
                upper(sa.well.well_type[i])
                    \notin {name_DRILLING, name_GTM, GS, NNS, MZS, GRP})
            => sa.pc = "raised")

============================================================================
